---- MODULE Spec2Model ----
(***************************************************************************)
(* Wikipedia / Wikidata enrichment of the census tables: the per-record    *)
(* lookup jobs (districts, subdistricts, ULBs, villages), the Bing URL     *)
(* fallback and the bulk SPARQL jobs, as one state machine over the        *)
(* wikipedia_* tables.  Texts are sequences of one-character strings, so   *)
(* that lower-casing, containment and slicing are computed as Python       *)
(* computes them.                                                          *)
(***************************************************************************)
EXTENDS Integers, Sequences, FiniteSets, TLC

(***************************************************************************)
(* Values                                                                  *)
(***************************************************************************)
\* SQL NULL / Python None / JSON null where a text is expected
NullT == <<"NULL">>
\* a JSON number where a text is expected (truthy, has no .lower())
NumT == <<"NUM">>
\* a JSON key that is absent from the response body
Absent == <<"ABSENT">>

IsStr(x) == x \notin {NullT, NumT, Absent}
\* Python truthiness of None, '', a non-empty str, a non-zero number
Truthy(x) == x # NullT /\ x # <<>>

UpperAlpha == <<"A","B","C","D","E","F","G","H","I","J","K","L","M","N","O","P","Q","R","S","T","U","V","W","X","Y","Z">>
LowerAlpha == <<"a","b","c","d","e","f","g","h","i","j","k","l","m","n","o","p","q","r","s","t","u","v","w","x","y","z">>
Digits == <<"0","1","2","3","4","5","6","7","8","9">>
RangeOf(s) == {s[i] : i \in 1..Len(s)}

\* str.lower()
lower(s) ==
  LET LowerChar(c) ==
        IF \E i \in 1..Len(UpperAlpha) : UpperAlpha[i] = c
        THEN LowerAlpha[CHOOSE i \in 1..Len(UpperAlpha) : UpperAlpha[i] = c]
        ELSE c
  IN  [i \in 1..Len(s) |-> LowerChar(s[i])]
\* Python `sub in s` on strings
In(sub, s) ==
  \E i \in 0..(Len(s) - Len(sub)) : \A j \in 1..Len(sub) : s[i + j] = sub[j]
\* Python s[:n]
Slice(s, n) == SubSeq(s, 1, IF Len(s) < n THEN Len(s) ELSE n)
\* Python any(k in s for k in words)
AnyIn(words, s) == \E i \in 1..Len(words) : In(words[i], s)

IsSpace(c) == c = " "
\* str.strip() / re.sub(r'\s+', ' ', s) on texts whose only whitespace is ' '
RECURSIVE LStrip(_)
LStrip(s) == IF s # <<>> /\ IsSpace(Head(s)) THEN LStrip(Tail(s)) ELSE s
RECURSIVE RStrip(_)
RStrip(s) ==
  IF s # <<>> /\ IsSpace(s[Len(s)]) THEN RStrip(SubSeq(s, 1, Len(s) - 1)) ELSE s
strip(s) == RStrip(LStrip(s))
RECURSIVE CollapseSpaces(_)
CollapseSpaces(s) ==
  IF s = <<>> THEN <<>>
  ELSE IF IsSpace(Head(s))
       THEN <<" ">> \o CollapseSpaces(LStrip(s))
       ELSE <<Head(s)>> \o CollapseSpaces(Tail(s))
\* str.split()[0]: the first whitespace-separated word (s has one)
RECURSIVE FirstWordOf(_)
FirstWordOf(s) ==
  IF s = <<>> \/ IsSpace(Head(s)) THEN <<>> ELSE <<Head(s)>> \o FirstWordOf(Tail(s))
first_word(s) == FirstWordOf(LStrip(s))

(***************************************************************************)
(* Page Validator, one per entity kind                                     *)
(***************************************************************************)
BLACKLIST_districts ==
  << <<"l","i","s","t"," ","o","f">>, <<"m","a","n","d","a","l">>, <<"t","a","l","u","k">>, <<"t","e","h","s","i","l">>, <<"v","i","l","l","a","g","e">>,
     <<"a","s","s","e","m","b","l","y"," ","c","o","n","s","t","i","t","u","e","n","c","y">>, <<"l","o","k"," ","s","a","b","h","a"," ","c","o","n","s","t","i","t","u","e","n","c","y">>, <<"d","i","v","i","s","i","o","n">> >>
is_correct_page_districts(title, summary, target_name, state) ==
  /\ Truthy(title) /\ Truthy(summary)
  /\ In(<<"d","i","s","t","r","i","c","t">>, lower(title)) \/ In(<<"d","i","s","t","r","i","c","t">>, lower(summary))
  /\ In(lower(target_name), lower(title)) \/ In(lower(target_name), lower(summary))
  /\ In(lower(state), lower(summary))
  /\ ~AnyIn(BLACKLIST_districts, lower(title))

BLACKLIST_subdistricts ==
  << <<"l","i","s","t"," ","o","f">>, <<"a","s","s","e","m","b","l","y"," ","c","o","n","s","t","i","t","u","e","n","c","y">>, <<"l","o","k"," ","s","a","b","h","a"," ","c","o","n","s","t","i","t","u","e","n","c","y">>, <<"e","l","e","c","t","i","o","n","s"," ","i","n">> >>
is_correct_page_subdistricts(title, summary, target_name, district, state) ==
  /\ Truthy(title) /\ Truthy(summary)
  /\ In(lower(target_name), lower(title)) \/ In(lower(target_name), lower(summary))
  /\ In(lower(district), lower(summary)) \/ In(lower(state), lower(summary))
  /\ ~AnyIn(BLACKLIST_subdistricts, lower(title))

GEO_KEYWORDS ==
  << <<"t","o","w","n">>, <<"c","i","t","y">>, <<"m","u","n","i","c","i","p","a","l","i","t","y">>, <<"m","u","n","i","c","i","p","a","l">>, <<"c","o","r","p","o","r","a","t","i","o","n">>, <<"n","a","g","a","r","p","a","l","i","k","a">>,
     <<"n","a","g","a","r"," ","p","a","n","c","h","a","y","a","t">>, <<"u","r","b","a","n">>, <<"p","o","p","u","l","a","t","i","o","n">>, <<"d","i","s","t","r","i","c","t">>, <<"s","t","a","t","e">>, <<"i","n","d","i","a">> >>
GeoPrefix_ulbs == 600
BLACKLIST_ulbs ==
  << <<"l","i","s","t"," ","o","f">>, <<"a","s","s","e","m","b","l","y"," ","c","o","n","s","t","i","t","u","e","n","c","y">>, <<"l","o","k"," ","s","a","b","h","a"," ","c","o","n","s","t","i","t","u","e","n","c","y">>,
     <<"e","l","e","c","t","i","o","n","s"," ","i","n">>, <<"v","i","d","h","a","n"," ","s","a","b","h","a">>, <<"r","a","i","l","w","a","y"," ","s","t","a","t","i","o","n">> >>
\* variant: the state name is looked for in the title
is_correct_page_ulbs_state_in_title(title, summary, target_name, state) ==
  /\ Truthy(title) /\ Truthy(summary)
  /\ In(lower(target_name), lower(title)) \/ In(lower(target_name), lower(summary))
  /\ In(lower(state), lower(title))
  /\ AnyIn(GEO_KEYWORDS, Slice(lower(summary), GeoPrefix_ulbs))
  /\ ~AnyIn(BLACKLIST_ulbs, lower(title))
is_correct_page_ulbs(title, summary, target_name, state) ==
  /\ Truthy(title) /\ Truthy(summary)
  /\ In(lower(target_name), lower(title)) \/ In(lower(target_name), lower(summary))
  /\ In(lower(state), lower(summary))
  /\ AnyIn(GEO_KEYWORDS, Slice(lower(summary), GeoPrefix_ulbs))
  /\ ~AnyIn(BLACKLIST_ulbs, lower(title))

GEO_WORDS ==
  << <<"v","i","l","l","a","g","e">>, <<"t","o","w","n">>, <<"h","a","m","l","e","t">>, <<"s","e","t","t","l","e","m","e","n","t">>, <<"p","o","p","u","l","a","t","e","d"," ","p","l","a","c","e">>,
     <<"p","a","n","c","h","a","y","a","t">>, <<"g","r","a","m">>, <<"l","o","c","a","l","i","t","y">>, <<"c","e","n","s","u","s">>, <<"p","o","p","u","l","a","t","i","o","n">>,
     <<"d","i","s","t","r","i","c","t">>, <<"t","e","h","s","i","l">>, <<"m","a","n","d","a","l">>, <<"t","a","l","u","k">> >>
GeoPrefix_villages == 700
BLACKLIST_villages ==
  << <<"l","i","s","t"," ","o","f">>, <<"c","o","n","s","t","i","t","u","e","n","c","y">>, <<"e","l","e","c","t","i","o","n">>, <<"r","a","i","l","w","a","y"," ","s","t","a","t","i","o","n">>,
     <<"a","i","r","p","o","r","t">>, <<"d","i","s","a","m","b","i","g","u","a","t","i","o","n">> >>
\* variant: a geographic word anywhere in the summary
is_correct_page_villages_whole_summary(title, summary, name, district, state) ==
  /\ In(lower(name), lower(title)) \/ In(lower(name), lower(summary))
  /\ In(lower(district), lower(summary)) \/ In(lower(state), lower(summary))
  /\ AnyIn(GEO_WORDS, lower(summary))
  /\ ~AnyIn(BLACKLIST_villages, lower(title))
is_correct_page_villages(title, summary, name, district, state) ==
  /\ In(lower(name), lower(title)) \/ In(lower(name), lower(summary))
  /\ In(lower(district), lower(summary)) \/ In(lower(state), lower(summary))
  /\ AnyIn(GEO_WORDS, Slice(lower(summary), GeoPrefix_villages))
  /\ ~AnyIn(BLACKLIST_villages, lower(title))

\* title.lower() / summary.lower() on a value that is no str raises
\* AttributeError; the truthiness test of the two REST validators comes first
ValidatorRaises_rest(title, summary) ==
  Truthy(title) /\ Truthy(summary) /\ (~IsStr(title) \/ ~IsStr(summary))
ValidatorRaises_villages(title, summary) == ~IsStr(title) \/ ~IsStr(summary)

(***************************************************************************)
(* clean_name (villages)                                                   *)
(***************************************************************************)
RECURSIVE DropChar(_, _)
DropChar(s, c) ==
  IF s = <<>> THEN <<>>
  ELSE IF Head(s) = c THEN DropChar(Tail(s), c)
       ELSE <<Head(s)>> \o DropChar(Tail(s), c)
\* the least index >= i at which s holds c, or 0
FindFrom(s, c, i) ==
  IF \E k \in i..Len(s) : s[k] = c
  THEN CHOOSE k \in i..Len(s) : s[k] = c /\ \A m \in i..(k - 1) : s[m] # c
  ELSE 0
\* re.sub(r'\(.*?\)', '', s): leftmost "(", shortest match up to the next ")"
RECURSIVE DropParens(_)
DropParens(s) ==
  LET o == FindFrom(s, "(", 1)
      c == IF o = 0 THEN 0 ELSE FindFrom(s, ")", o + 1)
  IN  IF c = 0 THEN s
      ELSE SubSeq(s, 1, o - 1) \o DropParens(SubSeq(s, c + 1, Len(s)))
clean_name(name) ==
  LET \* re.sub(r'/.*', '', s)
      DropAfterSlash(s) ==
        LET k == FindFrom(s, "/", 1) IN IF k = 0 THEN s ELSE SubSeq(s, 1, k - 1)
      NameChars ==
        RangeOf(UpperAlpha) \cup RangeOf(LowerAlpha) \cup RangeOf(Digits)
        \cup {" ", "-", "."}
      \* re.sub(r'[^a-zA-Z0-9 \-\.]', ' ', s)
      KeepNameChars(s) == [i \in 1..Len(s) |-> IF s[i] \in NameChars THEN s[i] ELSE " "]
  IN  strip(CollapseSpaces(KeepNameChars(DropAfterSlash(DropParens(DropChar(name, "*"))))))

(***************************************************************************)
(* Candidate Generator: the lookup terms of each job, in the order tried   *)
(***************************************************************************)
SP == <<" ">>
CS == <<","," ">>
search_terms_districts(name, state) ==
  << name \o <<" ","d","i","s","t","r","i","c","t",","," ">> \o state,
     name \o <<" ","d","i","s","t","r","i","c","t"," ">> \o state,
     name \o <<" ","d","i","s","t","r","i","c","t">> >>
fallback_term_districts(name, state) == name \o <<" ","d","i","s","t","r","i","c","t"," ">> \o state

RECURSIVE Concat(_)
Concat(ss) == IF ss = <<>> THEN <<>> ELSE Head(ss) \o Concat(Tail(ss))

QUALIFIERS_subdistricts == << <<"T","e","h","s","i","l">>, <<"T","a","l","u","k">>, <<"M","a","n","d","a","l">>, <<"B","l","o","c","k">>, <<"T","a","l","u","k","a">> >>
direct_attempts_subdistricts(name, district, state) ==
  LET q(qualifier) ==
        << name \o SP \o qualifier,
           name \o SP \o qualifier \o CS \o district,
           name \o SP \o qualifier \o CS \o district \o <<" ","d","i","s","t","r","i","c","t">>,
           name \o SP \o qualifier \o CS \o state >>
  IN  << name, name \o SP \o state >>
      \o Concat([i \in 1..Len(QUALIFIERS_subdistricts) |-> q(QUALIFIERS_subdistricts[i])])
      \o << name \o CS \o district,
            name \o SP \o district,
            name \o CS \o district \o <<" ","d","i","s","t","r","i","c","t">> >>
search_terms_subdistricts(name, district, state) ==
  << name,
     name \o SP \o state,
     name \o SP \o district,
     name \o <<" ","t","e","h","s","i","l"," ">> \o district,
     name \o <<" ","m","a","n","d","a","l"," ">> \o district >>

QUALIFIERS_ulbs ==
  << <<"M","u","n","i","c","i","p","a","l","i","t","y">>, <<"M","u","n","i","c","i","p","a","l"," ","C","o","r","p","o","r","a","t","i","o","n">>, <<"C","i","t","y">>, <<"T","o","w","n">>,
     <<"N","a","g","a","r"," ","P","a","l","i","k","a">>, <<"N","a","g","a","r"," ","P","a","n","c","h","a","y","a","t">> >>
qualifiers_ulbs(type_) ==
  IF Truthy(type_)
  THEN <<type_>> \o SelectSeq(QUALIFIERS_ulbs, LAMBDA q : lower(q) # lower(type_))
  ELSE QUALIFIERS_ulbs
\* variant: the qualifier terms ahead of the bare name
direct_attempts_ulbs_qualifiers_first(name, state, type_) ==
  LET q(qualifier) ==
        << name \o SP \o qualifier,
           name \o SP \o qualifier \o CS \o state,
           name \o CS \o state \o SP \o qualifier >>
  IN  Concat([i \in 1..Len(qualifiers_ulbs(type_)) |-> q(qualifiers_ulbs(type_)[i])])
      \o << name, name \o SP \o state >>
      \o << name \o CS \o state,
            name \o <<" ","(">> \o state \o <<")">> >>
direct_attempts_ulbs(name, state, type_) ==
  LET q(qualifier) ==
        << name \o SP \o qualifier,
           name \o SP \o qualifier \o CS \o state,
           name \o CS \o state \o SP \o qualifier >>
  IN  << name, name \o SP \o state >>
      \o Concat([i \in 1..Len(qualifiers_ulbs(type_)) |-> q(qualifiers_ulbs(type_)[i])])
      \o << name \o CS \o state,
            name \o <<" ","(">> \o state \o <<")">> >>
search_terms_ulbs(name, state, type_) ==
  << name,
     name \o SP \o state,
     IF Truthy(type_) THEN name \o SP \o type_ \o SP \o state
                      ELSE name \o <<" ","m","u","n","i","c","i","p","a","l","i","t","y"," ">> \o state,
     name \o <<" ","t","o","w","n"," ">> \o state >>

direct_attempts_villages(clean, district, state) ==
  << clean \o CS \o district,
     clean \o <<" ","v","i","l","l","a","g","e">>,
     clean \o CS \o state,
     clean \o CS \o district \o CS \o state,
     clean >>
search_terms_villages(clean, district, state) ==
  << clean \o <<" ","v","i","l","l","a","g","e"," ">> \o district \o SP \o state,
     clean \o SP \o district,
     clean \o SP \o state >>

bing_queries(name, district, state) ==
  << name \o <<" ","w","i","k","i","p","e","d","i","a">>,
     name \o SP \o district \o <<" ","w","i","k","i","p","e","d","i","a">>,
     name \o SP \o state \o <<" ","w","i","k","i","p","e","d","i","a">> >>
search_terms_wikipedia_api(name, district, state) ==
  << name,
     name \o SP \o district,
     name \o SP \o state,
     name \o <<" ","m","a","n","d","a","l"," ">> \o district,
     name \o <<" ","t","e","h","s","i","l"," ">> \o district >>

(***************************************************************************)
(* Bulk variant: normalizers, coordinate parsing, matching                 *)
(***************************************************************************)
\* str.replace(old, new): non-overlapping occurrences, left to right
RECURSIVE Replace(_, _, _)
Replace(s, old, new) ==
  IF Len(s) < Len(old) \/ old = <<>> THEN s
  ELSE IF SubSeq(s, 1, Len(old)) = old
       THEN new \o Replace(SubSeq(s, Len(old) + 1, Len(s)), old, new)
       ELSE <<Head(s)>> \o Replace(Tail(s), old, new)
RECURSIVE ReplaceAll(_, _, _)
\* for s in olds: name = name.replace(s, new)
ReplaceAll(s, olds, new) ==
  IF olds = <<>> THEN s ELSE ReplaceAll(Replace(s, Head(olds), new), Tail(olds), new)
KeyChars == RangeOf(LowerAlpha) \cup RangeOf(Digits) \cup {" "}

\* 19_1_extract_districts_sparql.normalize; <<"RAISE">> when name.lower()
\* raises AttributeError (name is None or a number)
normalize_districts(name) ==
  LET qualifiers == << <<" ","d","i","s","t","r","i","c","t">>, <<" ","m","a","n","d","a","l">>, <<" ","t","e","h","s","i","l">>, <<" ","t","a","l","u","k">>, <<" ","t","a","l","u","k","a">>,
                       <<" ","b","l","o","c","k">>, <<" ","s","u","b","d","i","s","t","r","i","c","t">>, <<" ","s","t","a","t","e">>, <<" ","a","n","d"," ">> >>
      \* re.sub(r'[^a-z0-9 ]', '', name)
      DropNonKeyChars(s) == SelectSeq(s, LAMBDA c : c \in KeyChars)
  IN  IF ~IsStr(name) THEN <<"RAISE">>
      ELSE strip(DropNonKeyChars(ReplaceAll(lower(name), qualifiers, <<" ">>)))

\* \w of a str pattern, on ASCII
IsWordChar(c) ==
  c \in RangeOf(LowerAlpha) \cup RangeOf(UpperAlpha) \cup RangeOf(Digits) \cup {"_"}
\* \b at the gap before position i of s (1 <= i <= Len(s) + 1)
Boundary(s, i) ==
  LET before == i > 1 /\ IsWordChar(s[i - 1])
      after == i <= Len(s) /\ IsWordChar(s[i])
  IN  before # after
\* does r'\b' + w + r'\b' match s at position i
WordAt(s, w, i) ==
  /\ i + Len(w) - 1 <= Len(s)
  /\ SubSeq(s, i, i + Len(w) - 1) = w
  /\ Boundary(s, i) /\ Boundary(s, i + Len(w))
\* re.sub(r'\b' + w + r'\b', '', s), scanning from position i
RECURSIVE RemoveWordFrom(_, _, _)
RemoveWordFrom(s, w, i) ==
  IF i > Len(s) THEN <<>>
  ELSE IF WordAt(s, w, i) THEN RemoveWordFrom(s, w, i + Len(w))
       ELSE <<s[i]>> \o RemoveWordFrom(s, w, i + 1)
\* re.sub(r'\btaluka?\b', '', s): the optional "a" is tried first
RECURSIVE RemoveTalukFrom(_, _)
RemoveTalukFrom(s, i) ==
  IF i > Len(s) THEN <<>>
  ELSE IF WordAt(s, <<"t","a","l","u","k","a">>, i) THEN RemoveTalukFrom(s, i + 6)
       ELSE IF WordAt(s, <<"t","a","l","u","k">>, i) THEN RemoveTalukFrom(s, i + 5)
            ELSE <<s[i]>> \o RemoveTalukFrom(s, i + 1)
RECURSIVE RemoveWords(_, _)
RemoveWords(s, ws) ==
  IF ws = <<>> THEN s ELSE RemoveWords(RemoveWordFrom(s, Head(ws), 1), Tail(ws))
\* 19_2_extract_subdistricts_sparql.normalize
normalize_subdistricts(name) ==
  LET before_taluk == << <<"m","a","n","d","a","l">>, <<"t","e","h","s","i","l">> >>
      after_taluk ==
        << <<"b","l","o","c","k">>, <<"c","d">>, <<"c","i","r","c","l","e">>, <<"d","i","s","t","r","i","c","t">>, <<"s","u","b","d","i","s","t","r","i","c","t">>, <<"s","u","b","-","d","i","s","t","r","i","c","t">>,
           <<"s","d","o">>, <<"l","m","d">>, <<"e","a","c">>, <<"a","d","c">>, <<"h","q">>, <<"s","t">>, <<"p","t">> >>
      \* re.sub(r'[^a-z0-9 ]', ' ', name)
      BlankNonKeyChars(s) ==
        [i \in 1..Len(s) |-> IF s[i] \in KeyChars THEN s[i] ELSE " "]
  IN  IF ~Truthy(name) THEN <<>>
      ELSE strip(CollapseSpaces(BlankNonKeyChars(
             RemoveWords(RemoveTalukFrom(RemoveWords(lower(name), before_taluk), 1),
                         after_taluk))))

\* str.split(): the whitespace-separated tokens
RECURSIVE Split(_)
Split(s) ==
  LET t == LStrip(s)
      w == FirstWordOf(t)
  IN  IF t = <<>> THEN <<>> ELSE <<w>> \o Split(SubSeq(t, Len(w) + 1, Len(t)))
\* float(tok) succeeds: digits with an optional sign and one optional point
IsFloat(tok) ==
  LET u == IF tok # <<>> /\ Head(tok) \in {"-", "+"} THEN Tail(tok) ELSE tok
      d == SelectSeq(u, LAMBDA c : c # ".")
  IN  /\ d # <<>>
      /\ \A i \in 1..Len(d) : d[i] \in RangeOf(Digits)
      /\ Len(u) - Len(d) <= 1
NoCoord == <<NullT, NullT>>
\* parse_coord(val) -> (lat, lon); val is the WKT literal or None
parse_coord(val) ==
  IF ~Truthy(val) \/ val = Absent THEN NoCoord
  ELSE LET c == Split(strip(Replace(Replace(val, <<"P","o","i","n","t","(">>, <<>>), <<")">>, <<>>)))
       IN  IF Len(c) = 2 /\ IsFloat(c[1]) /\ IsFloat(c[2])
           THEN <<c[2], c[1]>>
           ELSE NoCoord

\* r.get(key, {}).get("value", "")
ValueOr(field, default) == IF field = Absent THEN default ELSE field

NoEntry == [qid |-> NullT, lat |-> NullT, lon |-> NullT, label |-> NullT,
            parent |-> NullT, alt |-> NullT]
\* the entry built from one row binding (parent is stateLabel for districts,
\* districtLabel for subdistricts)
EntryOf(r) ==
  LET ll == parse_coord(IF r.coord = Absent THEN NullT ELSE r.coord)
      \* item["value"].split("/")[-1]
      AfterLastSlash(s) ==
        IF \E i \in 1..Len(s) : s[i] = "/"
        THEN LET k == CHOOSE i \in 1..Len(s) :
                        s[i] = "/" /\ \A m \in (i + 1)..Len(s) : s[m] # "/"
             IN  SubSeq(s, k + 1, Len(s))
        ELSE s
  IN  [qid |-> AfterLastSlash(r.item), lat |-> ll[1], lon |-> ll[2],
       label |-> ValueOr(r.itemLabel, <<>>), parent |-> ValueOr(r.parentLabel, <<>>),
       alt |-> ValueOr(r.altLabel, <<>>)]

HasKey(lookup, key) == \E i \in 1..Len(lookup) : lookup[i].key = key
\* the loop of load_wikidata_districts: lookup[key] = entry for label and
\* altLabel, first writer wins
RECURSIVE BuildLookup(_, _)
BuildLookup(lookup, bindings) ==
  LET entry == EntryOf(Head(bindings))
      add(lk, name_var) ==
        LET key == normalize_districts(name_var)
        IN  IF Truthy(name_var) /\ Truthy(key) /\ ~HasKey(lk, key)
            THEN Append(lk, [key |-> key, entry |-> entry])
            ELSE lk
  IN  IF bindings = <<>> THEN lookup
      ELSE BuildLookup(add(add(lookup, entry.label), entry.alt), Tail(bindings))
\* load_wikidata_districts, after the query
load_wikidata_districts(bindings) == BuildLookup(<<>>, bindings)

RECURSIVE FirstPattern(_, _, _)
FirstPattern(patterns, state, lookup) ==
  IF patterns = <<>> THEN NoEntry
  ELSE LET pattern == Head(patterns)
           entry == lookup[CHOOSE i \in 1..Len(lookup) : lookup[i].key = pattern].entry
       IN  IF ~HasKey(lookup, pattern) THEN FirstPattern(Tail(patterns), state, lookup)
           ELSE IF /\ Truthy(entry.parent) /\ Truthy(state)
                   /\ ~In(normalize_districts(entry.parent), normalize_districts(state))
                   /\ ~In(normalize_districts(state), normalize_districts(entry.parent))
                THEN FirstPattern(Tail(patterns), state, lookup)
                ELSE entry
find_match_districts(name, state, lookup) ==
  FirstPattern(<< normalize_districts(name \o <<" ","d","i","s","t","r","i","c","t"," ">> \o state),
                  normalize_districts(name \o <<" ","d","i","s","t","r","i","c","t">>),
                  normalize_districts(name \o SP \o state),
                  normalize_districts(name) >>, state, lookup)

\* load_state_subdistricts, after the queries
load_state_subdistricts(bindings) == [i \in 1..Len(bindings) |-> EntryOf(bindings[i])]
NameMatch(n, wn) == Truthy(wn) /\ (n = wn \/ (Truthy(n) /\ (In(n, wn) \/ In(wn, n))))
\* variant: a hard district check, an entry without a district is rejected
RECURSIVE find_match_subdistricts_hard_check(_, _, _, _)
find_match_subdistricts_hard_check(name, district, state, entries) ==
  IF entries = <<>> THEN NoEntry
  ELSE LET n == normalize_subdistricts(name)
           d == normalize_subdistricts(district)
           entry == Head(entries)
           wl == normalize_subdistricts(entry.label)
           wla == normalize_subdistricts(entry.alt)
           wd_d == normalize_subdistricts(entry.parent)
       IN  IF ~(NameMatch(n, wl) \/ NameMatch(n, wla))
           THEN find_match_subdistricts_hard_check(name, district, state, Tail(entries))
           ELSE IF ~Truthy(wd_d) \/ ~Truthy(d) \/ (~In(wd_d, d) /\ ~In(d, wd_d))
                THEN find_match_subdistricts_hard_check(name, district, state, Tail(entries))
                ELSE entry
RECURSIVE find_match_subdistricts(_, _, _, _)
find_match_subdistricts(name, district, state, entries) ==
  IF entries = <<>> THEN NoEntry
  ELSE LET n == normalize_subdistricts(name)
           d == normalize_subdistricts(district)
           entry == Head(entries)
           wl == normalize_subdistricts(entry.label)
           wla == normalize_subdistricts(entry.alt)
           wd_d == normalize_subdistricts(entry.parent)
       IN  IF ~(NameMatch(n, wl) \/ NameMatch(n, wla))
           THEN find_match_subdistricts(name, district, state, Tail(entries))
           ELSE IF Truthy(wd_d) /\ Truthy(d) /\ ~In(wd_d, d) /\ ~In(d, wd_d)
                THEN find_match_subdistricts(name, district, state, Tail(entries))
                ELSE entry

INDIA_STATES ==
  << <<<<"A","n","d","h","r","a"," ","P","r","a","d","e","s","h">>, <<"Q","1","1","5","9">>>>, <<<<"A","r","u","n","a","c","h","a","l"," ","P","r","a","d","e","s","h">>, <<"Q","1","1","6","2">>>>,
     <<<<"A","s","s","a","m">>, <<"Q","1","1","6","4">>>>, <<<<"B","i","h","a","r">>, <<"Q","1","1","6","5">>>>, <<<<"C","h","h","a","t","t","i","s","g","a","r","h">>, <<"Q","1","1","6","8">>>>,
     <<<<"G","o","a">>, <<"Q","1","1","7","1">>>>, <<<<"G","u","j","a","r","a","t">>, <<"Q","1","0","6","1">>>>, <<<<"H","a","r","y","a","n","a">>, <<"Q","1","1","7","4">>>>,
     <<<<"H","i","m","a","c","h","a","l"," ","P","r","a","d","e","s","h">>, <<"Q","1","1","7","7">>>>, <<<<"J","h","a","r","k","h","a","n","d">>, <<"Q","1","1","8","4">>>>,
     <<<<"K","a","r","n","a","t","a","k","a">>, <<"Q","1","1","8","5">>>>, <<<<"K","e","r","a","l","a">>, <<"Q","1","1","8","6">>>>,
     <<<<"M","a","d","h","y","a"," ","P","r","a","d","e","s","h">>, <<"Q","1","1","8","8">>>>, <<<<"M","a","h","a","r","a","s","h","t","r","a">>, <<"Q","1","1","9","1">>>>,
     <<<<"M","a","n","i","p","u","r">>, <<"Q","1","1","9","3">>>>, <<<<"M","e","g","h","a","l","a","y","a">>, <<"Q","1","1","9","5">>>>, <<<<"M","i","z","o","r","a","m">>, <<"Q","1","5","0","2">>>>,
     <<<<"N","a","g","a","l","a","n","d">>, <<"Q","1","5","9","9">>>>, <<<<"O","d","i","s","h","a">>, <<"Q","2","2","0","4","8">>>>, <<<<"P","u","n","j","a","b">>, <<"Q","2","2","4","2","4">>>>,
     <<<<"R","a","j","a","s","t","h","a","n">>, <<"Q","1","1","3","7">>>>, <<<<"S","i","k","k","i","m">>, <<"Q","1","5","0","5">>>>, <<<<"T","a","m","i","l"," ","N","a","d","u">>, <<"Q","1","4","4","5">>>>,
     <<<<"T","e","l","a","n","g","a","n","a">>, <<"Q","6","7","7","0","3","7">>>>, <<<<"T","r","i","p","u","r","a">>, <<"Q","1","3","6","3">>>>,
     <<<<"U","t","t","a","r"," ","P","r","a","d","e","s","h">>, <<"Q","1","4","9","8">>>>, <<<<"U","t","t","a","r","a","k","h","a","n","d">>, <<"Q","1","4","9","9">>>>,
     <<<<"W","e","s","t"," ","B","e","n","g","a","l">>, <<"Q","1","3","5","6">>>>, <<<<"J","a","m","m","u"," ","a","n","d"," ","K","a","s","h","m","i","r">>, <<"Q","1","0","3","0">>>>,
     <<<<"D","e","l","h","i">>, <<"Q","1","3","5","3">>>>, <<<<"A","n","d","a","m","a","n"," ","a","n","d"," ","N","i","c","o","b","a","r">>, <<"Q","4","0","8","8","8">>>>,
     <<<<"C","h","a","n","d","i","g","a","r","h">>, <<"Q","4","3","4","3","3">>>>, <<<<"D","a","d","r","a"," ","a","n","d"," ","N","a","g","a","r"," ","H","a","v","e","l","i">>, <<"Q","4","6","1","0","7">>>>,
     <<<<"D","a","m","a","n"," ","a","n","d"," ","D","i","u">>, <<"Q","4","6","2","0","8">>>>, <<<<"L","a","k","s","h","a","d","w","e","e","p">>, <<"Q","2","6","2","5","3">>>>,
     <<<<"P","u","d","u","c","h","e","r","r","y">>, <<"Q","6","6","7","4","3">>>> >>
\* the QID of the first key whose normal form equals the state's, or None
state_qid_of(state_name) ==
  LET n == normalize_subdistricts(state_name)
      hit(i) == normalize_subdistricts(INDIA_STATES[i][1]) = n
  IN  IF \E i \in 1..Len(INDIA_STATES) : hit(i)
      THEN INDIA_STATES[CHOOSE i \in 1..Len(INDIA_STATES) :
                          hit(i) /\ \A m \in 1..(i - 1) : ~hit(m)][2]
      ELSE NullT

(***************************************************************************)
(* The census rows copied into the wikipedia_* tables                      *)
(***************************************************************************)
\* how many records the census holds (any mix of the four tables)
MaxRecords == 2
\* how many hits one search reply carries at most (the jobs ask for 5)
MaxHits == 2

Census ==
  [ D1 |-> [kind |-> "district", name |-> <<"A","b">>, subdistrict |-> NullT,
            district |-> <<"A","b">>, state |-> <<"G","o","a">>, type_ |-> NullT,
            latitude |-> NullT, longitude |-> NullT],
    S1 |-> [kind |-> "subdistrict", name |-> <<"A","b">>, subdistrict |-> <<"A","b">>,
            district |-> <<"K","d">>, state |-> <<"G","o","a">>, type_ |-> NullT,
            latitude |-> NullT, longitude |-> NullT],
    S2 |-> [kind |-> "subdistrict", name |-> <<"A","b">>, subdistrict |-> <<"A","b">>,
            district |-> <<"K","d">>, state |-> <<"X","y">>, type_ |-> NullT,
            latitude |-> NullT, longitude |-> NullT],
    U1 |-> [kind |-> "ulb", name |-> <<"A","b">>, subdistrict |-> NullT,
            district |-> NullT, state |-> <<"G","o","a">>, type_ |-> <<"T","o","w","n">>,
            latitude |-> NullT, longitude |-> NullT],
    V1 |-> [kind |-> "village", name |-> <<"A","b"," ","(","x",")","/","y">>, subdistrict |-> <<"E","f">>,
            district |-> <<"K","d">>, state |-> <<"G","o","a">>, type_ |-> NullT,
            latitude |-> <<"1","1">>, longitude |-> <<"7","6">>],
    V2 |-> [kind |-> "village", name |-> <<"A","b">>, subdistrict |-> <<"E","f">>,
            district |-> <<"K","d">>, state |-> <<"L","a","k","s","h","a","d","w","e","e","p">>, type_ |-> NullT,
            latitude |-> <<"1","0">>, longitude |-> <<"7","3">>],
    V3 |-> [kind |-> "village", name |-> <<"A","*">>, subdistrict |-> <<"E","f">>,
            district |-> <<"K","d">>, state |-> <<"G","o","a">>, type_ |-> NullT,
            latitude |-> NullT, longitude |-> NullT] ]
\* ORDER BY state_name, district_name, <name>
Order == << "D1", "S1", "S2", "U1", "V3", "V1", "V2" >>

\* variant: the status column defaults to NOT_FOUND
FreshRow_not_found(c) ==
  [status |-> "NOT_FOUND", wiki_title |-> NullT, wiki_url |-> NullT,
   wiki_summary |-> NullT, latitude |-> Census[c].latitude,
   longitude |-> Census[c].longitude, wikidata_id |-> NullT, website_url |-> NullT]
\* INSERT IGNORE ... SELECT: the row setup_tables creates for a census record
FreshRow(c) ==
  [status |-> "PENDING", wiki_title |-> NullT, wiki_url |-> NullT,
   wiki_summary |-> NullT, latitude |-> Census[c].latitude,
   longitude |-> Census[c].longitude, wikidata_id |-> NullT, website_url |-> NullT]

(***************************************************************************)
(* What the external services may answer                                   *)
(***************************************************************************)
\* the texts the answers are made of: the article of the place, a list
\* article, an unrelated article; Wikipedia's coordinates; a Wikidata QID
Sample ==
  [ title |-> <<"A","b">>, extract |-> <<"A","b"," ","i","s"," ","a"," ","t","o","w","n"," ","i","n"," ","K","d"," ","d","i","s","t","r","i","c","t",","," ","G","o","a">>,
    url |-> <<"h","t","t","p","s",":","/","/","e","n",".","w","i","k","i","p","e","d","i","a",".","o","r","g","/","w","i","k","i","/","A","b">>,
    list_title |-> <<"L","i","s","t"," ","o","f"," ","A","b">>,
    other_title |-> <<"Z","z">>, other_extract |-> <<"Z","z"," ","i","s"," ","a"," ","r","i","v","e","r">>,
    other_url |-> <<"h","t","t","p","s",":","/","/","e","n",".","w","i","k","i","p","e","d","i","a",".","o","r","g","/","w","i","k","i","/","Z","z">>,
    lat |-> <<"1","5",".","5">>, lon |-> <<"7","3",".","8">>, qid |-> <<"Q","9">> ]

Exceptions == {"KeyboardInterrupt", "Timeout"}
Rest(exc, status, json, type, title, extract, url) ==
  [exc |-> exc, status |-> status, json |-> json, type |-> type, title |-> title,
   extract |-> extract, url |-> url]
\* replies of the page-summary endpoint
RestReplies ==
  { Rest(e, 0, FALSE, "", Absent, Absent, Absent) : e \in Exceptions }
  \cup { Rest("none", 404, TRUE, "", Absent, Absent, Absent),
         Rest("none", 200, FALSE, "", Absent, Absent, Absent),
         Rest("none", 200, TRUE, "no-extract", Sample.title, Sample.extract, Sample.url),
         Rest("none", 200, TRUE, "standard", Sample.title, Sample.extract, Sample.url),
         Rest("none", 200, TRUE, "standard", Sample.title, Sample.extract, Absent),
         Rest("none", 200, TRUE, "disambiguation", Sample.list_title, Sample.extract, Sample.url),
         Rest("none", 200, TRUE, "standard", Sample.other_title, Sample.other_extract, Sample.other_url),
         Rest("none", 200, TRUE, "standard", NullT, Sample.extract, Sample.url),
         Rest("none", 200, TRUE, "standard", NumT, Sample.extract, Sample.url),
         Rest("none", 200, TRUE, "standard", Sample.title, NullT, Sample.url),
         Rest("none", 200, TRUE, "standard", Sample.title, Absent, Sample.url) }
\* what wikipediaapi's page object may give; type is the page type the summary
\* endpoint reports for that page, which the library never reads
WikipediaApiReplies ==
  { [exc |-> e, exists |-> FALSE, type |-> "", title |-> <<>>, summary |-> <<>>,
     fullurl |-> <<>>] : e \in Exceptions }
  \cup { [exc |-> "none", exists |-> FALSE, type |-> "", title |-> Sample.title,
          summary |-> <<>>, fullurl |-> <<>>],
         [exc |-> "none", exists |-> TRUE, type |-> "standard", title |-> Sample.title,
          summary |-> Sample.extract, fullurl |-> Sample.url],
         [exc |-> "none", exists |-> TRUE, type |-> "no-extract", title |-> Sample.title,
          summary |-> Sample.extract, fullurl |-> Sample.url],
         [exc |-> "none", exists |-> TRUE, type |-> "disambiguation",
          title |-> Sample.list_title, summary |-> Sample.extract, fullurl |-> Sample.url],
         [exc |-> "none", exists |-> TRUE, type |-> "standard", title |-> Sample.other_title,
          summary |-> Sample.other_extract, fullurl |-> Sample.other_url] }

RECURSIVE SeqsUpTo(_, _)
SeqsUpTo(S, n) ==
  IF n = 0 THEN {<<>>}
  ELSE LET shorter == SeqsUpTo(S, n - 1)
       IN  shorter \cup {Append(s, x) : s \in {t \in shorter : Len(t) = n - 1}, x \in S}
\* replies of the search API (list=search)
SearchReplies ==
  { [exc |-> e, status |-> 0, json |-> FALSE, titles |-> <<>>] : e \in Exceptions }
  \cup { [exc |-> "none", status |-> 503, json |-> TRUE, titles |-> <<>>],
         [exc |-> "none", status |-> 200, json |-> FALSE, titles |-> <<>>] }
  \cup { [exc |-> "none", status |-> 200, json |-> TRUE, titles |-> t] :
           t \in SeqsUpTo({Sample.title, Sample.list_title, Sample.other_title}, MaxHits) }
\* replies of prop=categories
CategoryReplies ==
  { [exc |-> e, json |-> FALSE, cats |-> <<>>] : e \in Exceptions }
  \cup { [exc |-> "none", json |-> FALSE, cats |-> <<>>],
         [exc |-> "none", json |-> TRUE, cats |-> <<>>],
         [exc |-> "none", json |-> TRUE, cats |-> << <<"C","a","t","e","g","o","r","y",":","D","i","s","t","r","i","c","t","s"," ","o","f"," ","G","o","a">> >>],
         [exc |-> "none", json |-> TRUE, cats |-> << <<"C","a","t","e","g","o","r","y",":","T","e","h","s","i","l","s"," ","o","f"," ","G","o","a">> >>] }
\* replies of prop=coordinates
CoordinateReplies ==
  { [exc |-> e, status |-> 0, json |-> FALSE, coords |-> FALSE] : e \in Exceptions }
  \cup { [exc |-> "none", status |-> 500, json |-> TRUE, coords |-> TRUE],
         [exc |-> "none", status |-> 200, json |-> FALSE, coords |-> FALSE],
         [exc |-> "none", status |-> 200, json |-> TRUE, coords |-> FALSE],
         [exc |-> "none", status |-> 200, json |-> TRUE, coords |-> TRUE] }
\* the result links of a Bing page
BingReplies ==
  { [exc |-> e, hrefs |-> <<>>] : e \in Exceptions }
  \cup { [exc |-> "none", hrefs |-> <<>>],
         [exc |-> "none", hrefs |-> << <<"h","t","t","p","s",":","/","/","a","b",".","g","o","v">> >>],
         [exc |-> "none", hrefs |-> << <<"h","t","t","p","s",":","/","/","a","b",".","g","o","v">>, Sample.url >>] }

Binding(item, itemLabel, parentLabel, altLabel, coord) ==
  [item |-> item, itemLabel |-> itemLabel, parentLabel |-> parentLabel,
   altLabel |-> altLabel, coord |-> coord]
\* result rows of the districts query (parentLabel is stateLabel)
DistrictBindings ==
  LET W1 == Binding(<<"h","t","t","p",":","/","/","w","w","w",".","w","i","k","i","d","a","t","a",".","o","r","g","/","e","n","t","i","t","y","/","Q","1">>, <<"A","b"," ","d","i","s","t","r","i","c","t">>, <<"G","o","a">>,
                    Absent, <<"P","o","i","n","t","(","7","4"," ","1","5",")">>)
      W2 == Binding(<<"h","t","t","p",":","/","/","w","w","w",".","w","i","k","i","d","a","t","a",".","o","r","g","/","e","n","t","i","t","y","/","Q","2">>, <<"A","b">>, <<"K","e","r","a","l","a">>, Absent, Absent)
      W3 == Binding(<<"h","t","t","p",":","/","/","w","w","w",".","w","i","k","i","d","a","t","a",".","o","r","g","/","e","n","t","i","t","y","/","Q","3">>, <<"Z","z">>, Absent, <<"A","b">>, Absent)
  IN  { <<>>, <<W1>>, <<W2, W3>>, <<W3>> }
\* result rows of the subdistricts queries (parentLabel is districtLabel)
SubdistrictBindings ==
  LET X1 == Binding(<<"h","t","t","p",":","/","/","w","w","w",".","w","i","k","i","d","a","t","a",".","o","r","g","/","e","n","t","i","t","y","/","Q","4">>, <<"A","b"," ","m","a","n","d","a","l">>, <<"K","d"," ","d","i","s","t","r","i","c","t">>,
                    Absent, <<"P","o","i","n","t","(","7","4"," ","1","5",")">>)
      X2 == Binding(<<"h","t","t","p",":","/","/","w","w","w",".","w","i","k","i","d","a","t","a",".","o","r","g","/","e","n","t","i","t","y","/","Q","5">>, <<"A","b">>, <<"Z","z">>, Absent, Absent)
      X3 == Binding(<<"h","t","t","p",":","/","/","w","w","w",".","w","i","k","i","d","a","t","a",".","o","r","g","/","e","n","t","i","t","y","/","Q","6">>, <<"Z","z">>, Absent, <<"A","b","c">>, Absent)
  IN  { <<>>, <<X1>>, <<X2, X3>>, <<X2>> }
\* replies of the SPARQL endpoint
SparqlReplies(bindings) ==
  { [exc |-> e, status |-> 0, json |-> FALSE, bindings |-> <<>>] : e \in Exceptions }
  \cup { [exc |-> "none", status |-> 429, json |-> FALSE, bindings |-> <<>>],
         [exc |-> "none", status |-> 500, json |-> FALSE, bindings |-> <<>>],
         [exc |-> "none", status |-> 200, json |-> FALSE, bindings |-> <<>>] }
  \cup { [exc |-> "none", status |-> 200, json |-> TRUE, bindings |-> b] : b \in bindings }

(***************************************************************************)
(* Page Resolver and the other wrappers of external calls.  A wrapper      *)
(* yields tag "raise" when KeyboardInterrupt leaves it, "none" for None.   *)
(***************************************************************************)
NoResult == [tag |-> "none", title |-> NullT, summary |-> NullT, url |-> NullT,
             lat |-> NullT, lon |-> NullT]
RaisedResult == [NoResult EXCEPT !.tag = "raise"]
Page(title, summary, url) ==
  [tag |-> "page", title |-> title, summary |-> summary, url |-> url,
   lat |-> NullT, lon |-> NullT]
SummaryCap == 1000

\* variant: a resolver whose except clause also catches KeyboardInterrupt
get_page_direct_swallowing(term, reply) ==
  IF reply.exc # "none" \/ reply.status # 200 \/ ~reply.json THEN NoResult
  ELSE IF reply.type \notin {"standard", "disambiguation"} THEN NoResult
  ELSE IF reply.extract \in {NullT, NumT} THEN NoResult
  ELSE Page(ValueOr(reply.title, term),
            Slice(ValueOr(reply.extract, <<>>), SummaryCap),
            ValueOr(reply.url, <<>>))
\* 19_3 / 19_4 get_page_direct and 19_5 get_page_rest (the same code)
get_page_direct(term, reply) ==
  IF reply.exc = "KeyboardInterrupt" THEN RaisedResult
  ELSE IF reply.exc # "none" \/ reply.status # 200 \/ ~reply.json THEN NoResult
  ELSE IF reply.type \notin {"standard", "disambiguation"} THEN NoResult
  ELSE IF reply.extract \in {NullT, NumT} THEN NoResult
  ELSE Page(ValueOr(reply.title, term),
            Slice(ValueOr(reply.extract, <<>>), SummaryCap),
            ValueOr(reply.url, <<>>))
\* 19_2_extract_districts.get_page_direct (wikipediaapi); except Exception
\* does not catch KeyboardInterrupt
get_page_direct_districts(term, reply) ==
  IF reply.exc = "KeyboardInterrupt" THEN RaisedResult
  ELSE IF reply.exc # "none" \/ ~reply.exists THEN NoResult
  ELSE Page(reply.title, Slice(reply.summary, SummaryCap), reply.fullurl)

\* the titles a search call hands on: <<"raise">> for KeyboardInterrupt
RaisedHits == << <<"RAISE">> >>
\* 19_2 / 19_3 get_page_via_search, up to its inner get_page_direct: the top hit
top_hit(reply) ==
  IF reply.exc = "KeyboardInterrupt" THEN RaisedHits
  ELSE IF reply.exc # "none" \/ reply.status # 200 \/ ~reply.json THEN <<>>
  ELSE Slice(reply.titles, 1)
SearchLimit == 5
\* 19_4 get_page_via_search up to its loop, 19_5 search_wiki: the hits
search_wiki(reply) ==
  IF reply.exc = "KeyboardInterrupt" THEN RaisedHits
  ELSE IF reply.exc # "none" \/ reply.status # 200 \/ ~reply.json THEN <<>>
  ELSE Slice(reply.titles, SearchLimit)

\* "yes" / "no" / "raise"
is_district_category(reply) ==
  IF reply.exc = "KeyboardInterrupt" THEN "raise"
  ELSE IF reply.exc # "none" \/ ~reply.json THEN "no"
  ELSE IF \E i \in 1..Len(reply.cats) :
            \/ In(<<"d","i","s","t","r","i","c","t","s"," ","o","f">>, lower(reply.cats[i]))
            \/ In(<<"d","i","s","t","r","i","c","t","s"," ","i","n">>, lower(reply.cats[i]))
       THEN "yes" ELSE "no"

RaisedCoord == << <<"RAISE">>, <<"RAISE">> >>
\* 19_2 / 19_3 get_coordinates (checks the status code)
get_coordinates_checked(reply) ==
  IF reply.exc = "KeyboardInterrupt" THEN RaisedCoord
  ELSE IF reply.exc # "none" \/ reply.status # 200 \/ ~reply.json \/ ~reply.coords
       THEN NoCoord
       ELSE <<Sample.lat, Sample.lon>>
\* 19_4 / 19_5 get_coordinates (no status check)
get_coordinates(reply) ==
  IF reply.exc = "KeyboardInterrupt" THEN RaisedCoord
  ELSE IF reply.exc # "none" \/ ~reply.json \/ ~reply.coords THEN NoCoord
       ELSE <<Sample.lat, Sample.lon>>
\* get_website_url: the link, None, or <<"RAISE">>
get_website_url(reply) ==
  IF reply.exc = "KeyboardInterrupt" THEN <<"RAISE">>
  ELSE IF reply.exc # "none" THEN NullT ELSE reply.link

\* search_bing: the first href with "wikipedia.org/wiki/", None, or <<"RAISE">>
search_bing(reply) ==
  LET wiki(i) == In(<<"w","i","k","i","p","e","d","i","a",".","o","r","g","/","w","i","k","i","/">>, reply.hrefs[i])
  IN  IF reply.exc = "KeyboardInterrupt" THEN <<"RAISE">>
      ELSE IF reply.exc # "none" \/ ~\E i \in 1..Len(reply.hrefs) : wiki(i) THEN NullT
      ELSE reply.hrefs[CHOOSE i \in 1..Len(reply.hrefs) :
                         wiki(i) /\ \A m \in 1..(i - 1) : ~wiki(m)]
\* one term of search_wikipedia_api: the URL of the first fitting title,
\* None, or <<"RAISE">>
search_wikipedia_api_term(name, reply) ==
  LET \* re.sub(r'[^a-z]', '', name.lower().split()[0])
      fw == SelectSeq(first_word(lower(name)), LAMBDA c : c \in RangeOf(LowerAlpha))
      \* str.replace(old, new) for a one-character old
      ReplaceChar(s, old, new) == [i \in 1..Len(s) |-> IF s[i] = old THEN new ELSE s[i]]
      fits(i) == Truthy(fw) /\ In(fw, DropChar(lower(reply.titles[i]), " "))
  IN  IF reply.exc = "KeyboardInterrupt" THEN <<"RAISE">>
      ELSE IF reply.exc # "none" \/ ~reply.json
              \/ ~\E i \in 1..Len(reply.titles) : fits(i) THEN NullT
      ELSE <<"h","t","t","p","s",":","/","/","e","n",".","w","i","k","i","p","e","d","i","a",".","o","r","g","/","w","i","k","i","/">>
           \o ReplaceChar(reply.titles[CHOOSE i \in 1..Len(reply.titles) :
                                         fits(i) /\ \A m \in 1..(i - 1) : ~fits(m)],
                          " ", "_")
\* get_wikidata_id
get_wikidata_id(reply) ==
  IF reply.exc = "KeyboardInterrupt" THEN <<"RAISE">>
  ELSE IF reply.exc # "none" \/ ~reply.json THEN NullT ELSE reply.qid

SparqlRetries == 3
\* variant: the body of any response is returned, whatever its status
sparql_attempt_any_status(reply) ==
  IF reply.exc = "KeyboardInterrupt" THEN "raise"
  ELSE IF reply.exc = "none" THEN "rows"
  ELSE "retry"
\* one attempt of sparql_query: "raise", "rows" (HTTP 200 parsed) or "retry"
sparql_attempt(reply) ==
  IF reply.exc = "KeyboardInterrupt" THEN "raise"
  ELSE IF reply.exc = "none" /\ reply.status = 200 /\ reply.json THEN "rows"
  ELSE "retry"
\* sparql_query as a whole, replies[i] being the answer to its i-th request:
\* the number of requests made, the seconds slept after each failed attempt,
\* and the value returned (<<"RAISE">> when KeyboardInterrupt leaves it)
sparql_query(replies) ==
  LET RECURSIVE attempts(_)
      attempts(n) ==
        IF n > SparqlRetries
        THEN [requests |-> SparqlRetries, slept |-> <<>>, result |-> <<>>]
        ELSE LET reply == replies[n]
                 a == sparql_attempt(reply)
                 \* except Exception (r.json() included): sleep(5); 429: sleep(30)
                 wait == IF reply.exc # "none" \/ reply.status = 200 THEN 5
                         ELSE IF reply.status = 429 THEN 30 ELSE 0
             IN  IF a = "raise"
                 THEN [requests |-> n, slept |-> <<>>, result |-> <<"RAISE">>]
                 ELSE IF a = "rows"
                      THEN [requests |-> n, slept |-> <<>>, result |-> reply.bindings]
                 ELSE [attempts(n + 1) EXCEPT !.slept = <<wait>> \o @]
  IN  attempts(1)
\* the timeout= argument, in seconds, of the external call script j makes at
\* p: <<n>>, or <<>> where the call is given none (wikipediaapi's page())
timeout(j, p) ==
  CASE j = "districts_sparql" -> <<90>>
    [] j = "subdistricts_sparql" -> <<60>>
    [] j = "bing" /\ p = "bing" -> <<15>>
    [] j = "districts" /\ p \in {"direct", "hit"} -> <<>>
    [] OTHER -> <<10>>

(***************************************************************************)
(* State                                                                   *)
(***************************************************************************)
VARIABLES
  codes,    \* the unique codes present in the wikipedia_* tables
  db,       \* code -> the mutable columns of its row
  job,      \* the script that runs, or ran last
  pc,       \* where the running script stands: the external call it makes next
  rows,     \* the fetched rows the running script has still to process
  idx,      \* index of the term (or SPARQL attempt) the next call uses
  hits,     \* search hits still to be resolved
  result,   \* the script's local `result` (with lat/lon once fetched)
  kb,       \* bulk variant: the lookup / entries loaded from Wikidata
  ended,    \* how the last run ended: none, running, done, cancelled, crashed
  visited,  \* <<code, class>>: a run of that class has finished an attempt on code
  log,      \* this run: code -> number of attempts finished (a), of UPDATEs (n)
            \* and of UPDATEs that set the status (s)
  allnone,  \* every lookup of the attempt in progress has returned none so far
  raised,   \* the last step's external call raised KeyboardInterrupt
  last,     \* the last step's external call: did it raise (failed), and what
            \* the Page Resolver made of it, or the rows sparql_query got (res)
  arg,      \* the arguments of a function applied on its own
  out       \* what the function returned
vars == <<codes, db, job, pc, rows, idx, hits, result, kb, ended, visited, log,
          allnone, raised, last, arg, out>>

PerRecordJobs == {"districts", "subdistricts", "ulbs", "villages"}
SparqlJobs == {"districts_sparql", "subdistricts_sparql"}
\* variant: a SELECT without a WHERE clause
Selects_every_row(j, row) == TRUE
\* the WHERE clause of each script's SELECT
Selects(j, row) ==
  CASE j \in PerRecordJobs -> row.status = "PENDING"
    [] j = "bing" -> row.status \in {"NULL", "PENDING", "NOT_FOUND"}
    [] j \in SparqlJobs -> row.wikidata_id = NullT
VillageLimit == 500
\* cursor.fetchall(): the selected rows as they are now, in ORDER BY order
FetchAll(j) ==
  LET \* the table the script reads
      KindOf ==
        CASE j \in {"districts", "districts_sparql"} -> "district"
          [] j \in {"subdistricts", "subdistricts_sparql", "bing"} -> "subdistrict"
          [] j = "ulbs" -> "ulb"
          [] j = "villages" -> "village"
      selected == {c \in codes : Census[c].kind = KindOf /\ Selects(j, db[c])}
      o == SelectSeq(Order, LAMBDA c : c \in selected)
      all == [i \in 1..Len(o) |-> [code |-> o[i], row |-> db[o[i]]]]
  IN  IF j = "villages" THEN Slice(all, VillageLimit) ELSE all
CodesOf(rs) == {rs[i].code : i \in 1..Len(rs)}
NoLog(rs) == [c \in CodesOf(rs) |-> [a |-> 0, n |-> 0, s |-> 0]]

\* the rows of one wikipedia_* table (every script reads and writes one
\* table), as setup_tables creates them
Init ==
  /\ codes \in {S \in SUBSET DOMAIN Census :
                  /\ Cardinality(S) \in 1..MaxRecords
                  /\ \A a, b \in S : Census[a].kind = Census[b].kind}
  /\ db = [c \in codes |-> FreshRow(c)]
  /\ job = "none" /\ pc = "idle" /\ rows = <<>> /\ idx = 0 /\ hits = <<>>
  /\ result = NoResult /\ kb = <<>> /\ ended = "none" /\ visited = {} /\ log = <<>>
  /\ allnone = TRUE /\ raised = FALSE
  /\ last = [failed |-> FALSE, res |-> NoResult]
  /\ arg = [fn |-> "none"] /\ out = <<>>

Ctl(p, i, h, r) == pc' = p /\ idx' = i /\ hits' = h /\ result' = r
\* bookkeeping of a step that makes an external call (none: it returned none),
\* of a step that makes no call, and of the step that starts on a row
\* (res: what the Page Resolver returned, NoResult for any other call)
Called(reply, none, res) ==
  /\ raised' = (reply.exc = "KeyboardInterrupt")
  /\ allnone' = (pc' = "idle" \/ (allnone /\ none))
  /\ last' = [failed |-> reply.exc # "none", res |-> res]
  /\ UNCHANGED <<arg, out>>
NoCall ==
  /\ raised' = FALSE /\ allnone' = (pc' = "idle" \/ allnone)
  /\ last' = [failed |-> FALSE, res |-> NoResult] /\ UNCHANGED <<arg, out>>
NewAttempt ==
  /\ raised' = FALSE /\ allnone' = TRUE
  /\ last' = [failed |-> FALSE, res |-> NoResult] /\ UNCHANGED <<arg, out>>
\* the class of the running script: it looks records up, or matches in bulk
ClassOf(j) == IF j \in SparqlJobs THEN "bulk" ELSE "lookup"
\* the script moves on to its next external call, nothing is written
Goto(p, i, h, r) ==
  Ctl(p, i, h, r) /\ UNCHANGED <<codes, db, job, rows, kb, ended, visited, log>>
\* an exception leaves the script: the process ends, nothing is written
Die(how) ==
  /\ Ctl("idle", 0, <<>>, NoResult) /\ rows' = <<>> /\ kb' = <<>> /\ ended' = how
  /\ UNCHANGED <<codes, db, job, visited, log>>
\* one committed UPDATE of the current row, then the loop's next iteration
Update(newrow, sets_status, p) ==
  LET c == Head(rows).code
  IN  /\ db' = [db EXCEPT ![c] = newrow]
      /\ log' = [log EXCEPT ![c] = [a |-> @.a + 1, n |-> @.n + 1,
                                    s |-> @.s + (IF sets_status THEN 1 ELSE 0)]]
      /\ visited' = visited \cup {<<c, ClassOf(job)>>}
      /\ rows' = Tail(rows)
      /\ Ctl(p, 0, <<>>, NoResult)
      /\ UNCHANGED <<codes, job, kb, ended>>
\* the loop's next iteration without an UPDATE
Skip(n, attempted, p) ==
  /\ rows' = SubSeq(rows, n + 1, Len(rows))
  /\ visited' = visited \cup (IF attempted
                               THEN CodesOf(SubSeq(rows, 1, n)) \X {ClassOf(job)} ELSE {})
  /\ Ctl(p, 0, <<>>, NoResult)
  /\ log' = [c \in DOMAIN log |->
               IF attempted /\ c \in CodesOf(SubSeq(rows, 1, n))
               THEN [log[c] EXCEPT !.a = @ + 1] ELSE log[c]]
  /\ UNCHANGED <<codes, db, job, kb, ended>>

Cur == Census[Head(rows).code]
Row == db[Head(rows).code]
\* SET wiki_title, wiki_url, wiki_summary, status, latitude, longitude
SetMatch(res, status, lat, lon) ==
  [Row EXCEPT !.wiki_title = res.title, !.wiki_url = res.url,
              !.wiki_summary = res.summary, !.status = status,
              !.latitude = lat, !.longitude = lon]

StartJob(j) ==
  /\ pc = "idle"
  /\ job' = j /\ ended' = "running"
  /\ IF j = "districts_sparql"
     THEN rows' = <<>> /\ log' = <<>> /\ Ctl("sparql", 1, <<>>, NoResult)
     ELSE /\ rows' = FetchAll(j) /\ log' = NoLog(FetchAll(j))
          /\ Ctl(IF j = "subdistricts_sparql" THEN "state" ELSE "row", 0, <<>>, NoResult)
  /\ UNCHANGED <<codes, db, kb, visited>>
  /\ NoCall
\* the for loop is exhausted: the script ends
Finish ==
  /\ pc \in {"row", "state", "match"} /\ rows = <<>>
  /\ Ctl("idle", 0, <<>>, NoResult) /\ ended' = "done" /\ kb' = <<>>
  /\ UNCHANGED <<codes, db, job, rows, visited, log>>
  /\ NoCall
\* the loop body starts on a row (districts, subdistricts, ULBs, Bing)
BeginRow ==
  /\ pc = "row" /\ rows # <<>> /\ job \in {"districts", "subdistricts", "ulbs", "bing"}
  /\ Goto(IF job = "bing" THEN "bing" ELSE "direct", 1, <<>>, NoResult)
  /\ NewAttempt

(***************************************************************************)
(* 19_2_extract_districts.py                                               *)
(***************************************************************************)
districts_valid(res) ==
  res.tag = "page" /\ is_correct_page_districts(res.title, res.summary, Cur.name, Cur.state)
\* the UPDATE of extract_districts
districts_update(res, website) ==
  Update([SetMatch(IF res.tag = "page" THEN res ELSE NoResult,
                   IF res.tag = "page" THEN "FOUND" ELSE "NOT_FOUND",
                   IF res.tag = "page" THEN res.lat ELSE NullT,
                   IF res.tag = "page" THEN res.lon ELSE NullT)
            EXCEPT !.website_url = website], TRUE, "row")
\* the next turn of the for loop over search_terms; after the loop
\* `if not result:` decides on the search
districts_next_term(res) ==
  IF idx < Len(search_terms_districts(Cur.name, Cur.state))
  THEN Goto("direct", idx + 1, <<>>, res)
  ELSE IF res.tag = "page" THEN Goto("coords", 0, <<>>, res)
       ELSE Goto("search", 1, <<>>, NoResult)
districts_direct ==
  /\ job = "districts" /\ pc = "direct"
  /\ \E reply \in WikipediaApiReplies :
       LET res == get_page_direct_districts(
                    search_terms_districts(Cur.name, Cur.state)[idx], reply)
       IN  /\ IF res.tag = "raise" THEN Die("cancelled")
              ELSE IF districts_valid(res) THEN Goto("category", idx, <<>>, res)
              ELSE districts_next_term(res)
           /\ Called(reply, res.tag = "none", res)
districts_category ==
  /\ job = "districts" /\ pc \in {"category", "category2"}
  /\ \E reply \in CategoryReplies :
       LET ok == is_district_category(reply)
       IN  /\ IF ok = "raise" THEN Die("cancelled")
              ELSE IF ok = "yes" THEN Goto("coords", 0, <<>>, result)
              ELSE IF pc = "category" THEN districts_next_term(NoResult)
              ELSE districts_update(NoResult, NullT)
           /\ Called(reply, TRUE, NoResult)
districts_search ==
  /\ job = "districts" /\ pc = "search"
  /\ \E reply \in SearchReplies :
       LET h == top_hit(reply)
       IN  /\ IF h = RaisedHits THEN Die("cancelled")
              ELSE IF h = <<>> THEN districts_update(NoResult, NullT)
              ELSE Goto("hit", idx, h, NoResult)
           /\ Called(reply, h = <<>>, NoResult)
districts_hit ==
  /\ job = "districts" /\ pc = "hit"
  /\ \E reply \in WikipediaApiReplies :
       LET res == get_page_direct_districts(Head(hits), reply)
       IN  /\ IF res.tag = "raise" THEN Die("cancelled")
              ELSE IF districts_valid(res) THEN Goto("category2", idx, <<>>, res)
              ELSE districts_update(NoResult, NullT)
           /\ Called(reply, res.tag = "none", res)
districts_coords ==
  /\ job = "districts" /\ pc = "coords"
  /\ \E reply \in CoordinateReplies :
       LET ll == get_coordinates_checked(reply)
       IN  /\ IF ll = RaisedCoord THEN Die("cancelled")
              ELSE Goto("website", 0, <<>>, [result EXCEPT !.lat = ll[1], !.lon = ll[2]])
           /\ Called(reply, TRUE, NoResult)
districts_website ==
  /\ job = "districts" /\ pc = "website"
  /\ \E reply \in { [exc |-> e, link |-> NullT] : e \in Exceptions }
                     \cup { [exc |-> "none", link |-> NullT],
                            [exc |-> "none", link |-> <<"h","t","t","p","s",":","/","/","a","b",".","g","o","v">>] } :
       LET w == get_website_url(reply)
       IN  /\ IF w = <<"RAISE">> THEN Die("cancelled") ELSE districts_update(result, w)
           /\ Called(reply, TRUE, NoResult)

(***************************************************************************)
(* 19_3_extract_subdistricts.py                                            *)
(***************************************************************************)
subdistricts_valid(res) ==
  is_correct_page_subdistricts(res.title, res.summary, Cur.name, Cur.district, Cur.state)
\* variant: a failed attempt recorded as ERROR
plain_update_error(res) ==
  Update(SetMatch(IF res.tag = "page" THEN res ELSE NoResult,
                  IF res.tag = "page" THEN "FOUND" ELSE "ERROR",
                  IF res.tag = "page" THEN res.lat ELSE NullT,
                  IF res.tag = "page" THEN res.lon ELSE NullT), TRUE, "row")
\* the UPDATE of extract_subdistricts / extract_ulbs: lat, lon start as None
plain_update(res) ==
  Update(SetMatch(IF res.tag = "page" THEN res ELSE NoResult,
                  IF res.tag = "page" THEN "FOUND" ELSE "NOT_FOUND",
                  IF res.tag = "page" THEN res.lat ELSE NullT,
                  IF res.tag = "page" THEN res.lon ELSE NullT), TRUE, "row")
subdistricts_next_search ==
  IF idx < Len(search_terms_subdistricts(Cur.name, Cur.district, Cur.state))
  THEN Goto("search", idx + 1, <<>>, NoResult)
  ELSE plain_update(NoResult)
subdistricts_direct ==
  /\ job = "subdistricts" /\ pc = "direct"
  /\ \E reply \in RestReplies :
       LET terms == direct_attempts_subdistricts(Cur.name, Cur.district, Cur.state)
           res == get_page_direct(terms[idx], reply)
       IN  /\ IF res.tag = "raise" THEN Die("cancelled")
              ELSE IF res.tag = "page" /\ ValidatorRaises_rest(res.title, res.summary)
                   THEN Die("crashed")
              ELSE IF res.tag = "page" /\ subdistricts_valid(res)
                   THEN Goto("coords", 0, <<>>, res)
              ELSE IF idx < Len(terms) THEN Goto("direct", idx + 1, <<>>, NoResult)
              ELSE Goto("search", 1, <<>>, NoResult)
           /\ Called(reply, res.tag = "none", res)
subdistricts_search ==
  /\ job = "subdistricts" /\ pc = "search"
  /\ \E reply \in SearchReplies :
       LET h == top_hit(reply)
       IN  /\ IF h = RaisedHits THEN Die("cancelled")
              ELSE IF h = <<>> THEN subdistricts_next_search
              ELSE Goto("hit", idx, h, NoResult)
           /\ Called(reply, h = <<>>, NoResult)
subdistricts_hit ==
  /\ job = "subdistricts" /\ pc = "hit"
  /\ \E reply \in RestReplies :
       LET res == get_page_direct(Head(hits), reply)
       IN  /\ IF res.tag = "raise" THEN Die("cancelled")
              ELSE IF res.tag = "page" /\ ValidatorRaises_rest(res.title, res.summary)
                   THEN Die("crashed")
              ELSE IF res.tag = "page" /\ subdistricts_valid(res)
                   THEN Goto("coords", 0, <<>>, res)
              ELSE subdistricts_next_search
           /\ Called(reply, res.tag = "none", res)
subdistricts_coords ==
  /\ job = "subdistricts" /\ pc = "coords"
  /\ \E reply \in CoordinateReplies :
       LET ll == get_coordinates_checked(reply)
       IN  /\ IF ll = RaisedCoord THEN Die("cancelled")
              ELSE plain_update([result EXCEPT !.lat = ll[1], !.lon = ll[2]])
           /\ Called(reply, TRUE, NoResult)

(***************************************************************************)
(* 19_4_extract_ulbs.py                                                    *)
(***************************************************************************)
ulbs_valid(res) == is_correct_page_ulbs(res.title, res.summary, Cur.name, Cur.state)
ulbs_next_search ==
  IF idx < Len(search_terms_ulbs(Cur.name, Cur.state, Cur.type_))
  THEN Goto("search", idx + 1, <<>>, NoResult)
  ELSE plain_update(NoResult)
ulbs_direct ==
  /\ job = "ulbs" /\ pc = "direct"
  /\ \E reply \in RestReplies :
       LET terms == direct_attempts_ulbs(Cur.name, Cur.state, Cur.type_)
           res == get_page_direct(terms[idx], reply)
       IN  /\ IF res.tag = "raise" THEN Die("cancelled")
              ELSE IF res.tag = "page" /\ ValidatorRaises_rest(res.title, res.summary)
                   THEN Die("crashed")
              ELSE IF res.tag = "page" /\ ulbs_valid(res) THEN Goto("coords", 0, <<>>, res)
              ELSE IF idx < Len(terms) THEN Goto("direct", idx + 1, <<>>, NoResult)
              ELSE Goto("search", 1, <<>>, NoResult)
           /\ Called(reply, res.tag = "none", res)
ulbs_search ==
  /\ job = "ulbs" /\ pc = "search"
  /\ \E reply \in SearchReplies :
       LET h == search_wiki(reply)
       IN  /\ IF h = RaisedHits THEN Die("cancelled")
              ELSE IF h = <<>> THEN ulbs_next_search
              ELSE Goto("hit", idx, h, NoResult)
           /\ Called(reply, h = <<>>, NoResult)
\* get_page_via_search returns the first hit that resolves; the caller
\* validates that page and goes on to the next search term if it fails
ulbs_hit ==
  /\ job = "ulbs" /\ pc = "hit"
  /\ \E reply \in RestReplies :
       LET res == get_page_direct(Head(hits), reply)
       IN  /\ IF res.tag = "raise" THEN Die("cancelled")
              ELSE IF res.tag = "none"
                   THEN IF Tail(hits) # <<>> THEN Goto("hit", idx, Tail(hits), NoResult)
                        ELSE ulbs_next_search
              ELSE IF ValidatorRaises_rest(res.title, res.summary) THEN Die("crashed")
              ELSE IF ulbs_valid(res) THEN Goto("coords", 0, <<>>, res)
              ELSE ulbs_next_search
           /\ Called(reply, res.tag = "none", res)
ulbs_coords ==
  /\ job = "ulbs" /\ pc = "coords"
  /\ \E reply \in CoordinateReplies :
       LET ll == get_coordinates(reply)
       IN  /\ IF ll = RaisedCoord THEN Die("cancelled")
              ELSE plain_update([result EXCEPT !.lat = ll[1], !.lon = ll[2]])
           /\ Called(reply, TRUE, NoResult)

(***************************************************************************)
(* 19_5_extract_villages.py                                                *)
(***************************************************************************)
\* variant: the skip set spelled as the census spells the states
SKIP_STATES_as_census == { <<"A","n","d","a","m","a","n"," ","a","n","d"," ","N","i","c","o","b","a","r"," ","I","s","l","a","n","d","s">>, <<"L","a","k","s","h","a","d","w","e","e","p">> }
SKIP_STATES == { <<"a","n","d","a","m","a","n"," ","a","n","d"," ","n","i","c","o","b","a","r"," ","i","s","l","a","n","d","s">>, <<"l","a","k","s","h","a","d","w","e","e","p">> }
MinNameLen == 2
villages_valid(res) ==
  is_correct_page_villages(res.title, res.summary, clean_name(Cur.name),
                           Cur.district, Cur.state)
\* the UPDATE at the end of the loop body; row is the fetched row
villages_update(res) ==
  IF res.tag = "page"
  THEN Update(SetMatch(res, "FOUND",
                       IF res.lat = NullT THEN Head(rows).row.latitude ELSE res.lat,
                       IF res.lat = NullT THEN Head(rows).row.longitude ELSE res.lon),
              TRUE, "row")
  ELSE Update(SetMatch(NoResult, "NOT_FOUND", Head(rows).row.latitude,
                       Head(rows).row.longitude), TRUE, "row")
villages_row ==
  /\ job = "villages" /\ pc = "row" /\ rows # <<>>
  /\ IF lower(Cur.state) \in SKIP_STATES
     THEN Update([Row EXCEPT !.status = "NOT_FOUND"], TRUE, "row")
     ELSE IF ~Truthy(clean_name(Cur.name)) \/ Len(clean_name(Cur.name)) < MinNameLen
          THEN villages_update(NoResult)
          ELSE Goto("direct", 1, <<>>, NoResult)
  /\ NewAttempt
\* the hits that pass the first-word filter, in rank order
villages_prefilter(titles) ==
  SelectSeq(titles, LAMBDA t : In(lower(first_word(clean_name(Cur.name))), lower(t)))
villages_next_search ==
  IF idx < Len(search_terms_villages(clean_name(Cur.name), Cur.district, Cur.state))
  THEN Goto("search", idx + 1, <<>>, NoResult)
  ELSE villages_update(NoResult)
villages_direct ==
  /\ job = "villages" /\ pc = "direct"
  /\ \E reply \in RestReplies :
       LET terms == direct_attempts_villages(clean_name(Cur.name), Cur.district, Cur.state)
           res == get_page_direct(terms[idx], reply)
       IN  /\ IF res.tag = "raise" THEN Die("cancelled")
              ELSE IF res.tag = "page" /\ ValidatorRaises_villages(res.title, res.summary)
                   THEN Die("crashed")
              ELSE IF res.tag = "page" /\ villages_valid(res) THEN Goto("coords", 0, <<>>, res)
              ELSE IF idx < Len(terms) THEN Goto("direct", idx + 1, <<>>, NoResult)
              ELSE Goto("search", 1, <<>>, NoResult)
           /\ Called(reply, res.tag = "none", res)
villages_search ==
  /\ job = "villages" /\ pc = "search"
  /\ \E reply \in SearchReplies :
       LET h == search_wiki(reply)
       IN  /\ IF h = RaisedHits THEN Die("cancelled")
              ELSE IF villages_prefilter(h) = <<>> THEN villages_next_search
              ELSE Goto("hit", idx, villages_prefilter(h), NoResult)
           /\ Called(reply, h = <<>>, NoResult)
villages_hit ==
  /\ job = "villages" /\ pc = "hit"
  /\ \E reply \in RestReplies :
       LET res == get_page_direct(Head(hits), reply)
       IN  /\ IF res.tag = "raise" THEN Die("cancelled")
              ELSE IF res.tag = "page" /\ ValidatorRaises_villages(res.title, res.summary)
                   THEN Die("crashed")
              ELSE IF res.tag = "page" /\ villages_valid(res) THEN Goto("coords", 0, <<>>, res)
              ELSE IF Tail(hits) # <<>> THEN Goto("hit", idx, Tail(hits), NoResult)
              ELSE villages_next_search
           /\ Called(reply, res.tag = "none", res)
villages_coords ==
  /\ job = "villages" /\ pc = "coords"
  /\ \E reply \in CoordinateReplies :
       LET ll == get_coordinates(reply)
       IN  /\ IF ll = RaisedCoord THEN Die("cancelled")
              ELSE villages_update([result EXCEPT !.lat = ll[1], !.lon = ll[2]])
           /\ Called(reply, TRUE, NoResult)

(***************************************************************************)
(* 19_3_scrape_wikipedia_urls_with_bing.py                                 *)
(***************************************************************************)
\* variant: an update_db that writes the status alone
update_db_status_only(wiki_url, qid, status) ==
  Update([Row EXCEPT !.status = status], TRUE, "row")
\* update_db: SET wiki_url, wikidata_id, status
update_db(wiki_url, qid, status) ==
  Update([Row EXCEPT !.wiki_url = wiki_url, !.wikidata_id = qid, !.status = status],
         TRUE, "row")
FoundUrl(url) == [NoResult EXCEPT !.tag = "url", !.url = url]
\* find_wikipedia_url: one Bing query
bing_search ==
  /\ job = "bing" /\ pc = "bing"
  /\ \E reply \in BingReplies :
       LET url == search_bing(reply)
       IN  /\ IF url = <<"RAISE">> THEN Die("cancelled")
              ELSE IF Truthy(url) THEN Goto("qid", 0, <<>>, FoundUrl(url))
              ELSE IF idx < Len(bing_queries(Cur.name, Cur.district, Cur.state))
                   THEN Goto("bing", idx + 1, <<>>, NoResult)
              ELSE Goto("wpapi", 1, <<>>, NoResult)
           /\ Called(reply, ~Truthy(url), NoResult)
\* search_wikipedia_api: one search term
bing_wikipedia_api ==
  /\ job = "bing" /\ pc = "wpapi"
  /\ \E reply \in SearchReplies :
       LET url == search_wikipedia_api_term(Cur.name, reply)
       IN  /\ IF url = <<"RAISE">> THEN Die("cancelled")
              ELSE IF Truthy(url) THEN Goto("qid", 0, <<>>, FoundUrl(url))
              ELSE IF idx < Len(search_terms_wikipedia_api(Cur.name, Cur.district, Cur.state))
                   THEN Goto("wpapi", idx + 1, <<>>, NoResult)
              ELSE update_db(NullT, NullT, "NOT_FOUND")
           /\ Called(reply, ~Truthy(url), NoResult)
bing_wikidata_id ==
  /\ job = "bing" /\ pc = "qid"
  /\ \E reply \in { [exc |-> e, json |-> FALSE, qid |-> NullT] : e \in Exceptions }
                     \cup { [exc |-> "none", json |-> FALSE, qid |-> NullT],
                            [exc |-> "none", json |-> TRUE, qid |-> NullT],
                            [exc |-> "none", json |-> TRUE, qid |-> Sample.qid] } :
       LET qid == get_wikidata_id(reply)
       IN  /\ IF qid = <<"RAISE">> THEN Die("cancelled")
              ELSE update_db(result.url, qid, "FOUND")
           /\ Called(reply, TRUE, NoResult)

(***************************************************************************)
(* 19_1_extract_districts_sparql.py                                        *)
(***************************************************************************)
\* variant: a bulk update that also marks the row FOUND
sparql_update_status(entry, p) ==
  Update([Row EXCEPT !.wikidata_id = entry.qid, !.latitude = entry.lat,
                     !.longitude = entry.lon, !.status = "FOUND"], TRUE, p)
\* variant: a bulk update that also resets the status
sparql_update_resets_status(entry, p) ==
  Update([Row EXCEPT !.wikidata_id = entry.qid, !.latitude = entry.lat,
                     !.longitude = entry.lon, !.status = "PENDING"], FALSE, p)
\* SET wikidata_id, latitude, longitude
sparql_update(entry, p) ==
  Update([Row EXCEPT !.wikidata_id = entry.qid, !.latitude = entry.lat,
                     !.longitude = entry.lon], FALSE, p)
\* load_wikidata_districts is done: the SELECT follows
districts_sparql_loaded(bindings) ==
  /\ kb' = load_wikidata_districts(bindings)
  /\ rows' = FetchAll(job) /\ log' = NoLog(FetchAll(job))
  /\ Ctl("match", 0, <<>>, NoResult)
  /\ UNCHANGED <<codes, db, job, ended, visited>>
districts_sparql_query ==
  /\ job = "districts_sparql" /\ pc = "sparql"
  /\ \E reply \in SparqlReplies(DistrictBindings) :
       LET a == sparql_attempt(reply)
       IN  /\ IF a = "raise" THEN Die("cancelled")
              ELSE IF a = "rows" THEN districts_sparql_loaded(reply.bindings)
              ELSE IF idx < SparqlRetries THEN Goto("sparql", idx + 1, <<>>, NoResult)
              ELSE districts_sparql_loaded(<<>>)
           /\ Called(reply, TRUE, IF a = "rows" THEN [tag |-> "rows", rows |-> reply.bindings]
                                    ELSE NoResult)
districts_sparql_match ==
  /\ job = "districts_sparql" /\ pc = "match" /\ rows # <<>>
  /\ LET entry == find_match_districts(Cur.name, Cur.state, kb)
     IN  IF entry = NoEntry THEN Skip(1, TRUE, "match")
         ELSE sparql_update(entry, "match")
  /\ NoCall

(***************************************************************************)
(* 19_2_extract_subdistricts_sparql.py                                     *)
(***************************************************************************)
\* the rows of by_state[state_name] that are still to come
RECURSIVE GroupLen(_, _)
GroupLen(rs, state) ==
  IF rs = <<>> \/ Census[Head(rs).code].state # state THEN 0
  ELSE 1 + GroupLen(Tail(rs), state)
\* for state_name, rows in sorted(by_state.items()): the state's QID
subdistricts_sparql_state ==
  /\ job = "subdistricts_sparql" /\ pc = "state" /\ rows # <<>>
  /\ IF ~Truthy(state_qid_of(Cur.state))
     THEN Skip(GroupLen(rows, Cur.state), FALSE, "state")
     ELSE Goto("sparql", 1, <<>>, NoResult)
  /\ NoCall
subdistricts_sparql_loaded(bindings) ==
  /\ kb' = load_state_subdistricts(bindings)
  /\ Ctl("match", 0, <<>>, NoResult)
  /\ UNCHANGED <<codes, db, job, rows, ended, visited, log>>
\* variant: the fallback query is issued whatever the primary query returned
subdistricts_sparql_query_then_broad ==
  /\ job = "subdistricts_sparql" /\ pc = "sparql"
  /\ \E reply \in SparqlReplies(SubdistrictBindings) :
       LET a == sparql_attempt(reply)
       IN  /\ IF a = "raise" THEN Die("cancelled")
              ELSE IF a = "retry" /\ idx < SparqlRetries
                   THEN Goto("sparql", idx + 1, <<>>, NoResult)
              ELSE Goto("sparql2", 1, <<>>, NoResult)
           /\ Called(reply, TRUE, IF a = "rows" THEN [tag |-> "rows", rows |-> reply.bindings]
                                    ELSE NoResult)
\* load_state_subdistricts: the primary query
subdistricts_sparql_query ==
  /\ job = "subdistricts_sparql" /\ pc = "sparql"
  /\ \E reply \in SparqlReplies(SubdistrictBindings) :
       LET a == sparql_attempt(reply)
       IN  /\ IF a = "raise" THEN Die("cancelled")
              ELSE IF a = "rows" /\ reply.bindings # <<>>
                   THEN subdistricts_sparql_loaded(reply.bindings)
              ELSE IF a = "retry" /\ idx < SparqlRetries
                   THEN Goto("sparql", idx + 1, <<>>, NoResult)
              ELSE Goto("sparql2", 1, <<>>, NoResult)
           /\ Called(reply, TRUE, IF a = "rows" THEN [tag |-> "rows", rows |-> reply.bindings]
                                    ELSE NoResult)
\* load_state_subdistricts: the fallback query; no entries skips the state
subdistricts_sparql_query2 ==
  /\ job = "subdistricts_sparql" /\ pc = "sparql2"
  /\ \E reply \in SparqlReplies(SubdistrictBindings) :
       LET a == sparql_attempt(reply)
       IN  /\ IF a = "raise" THEN Die("cancelled")
              ELSE IF a = "rows" /\ reply.bindings # <<>>
                   THEN subdistricts_sparql_loaded(reply.bindings)
              ELSE IF a = "retry" /\ idx < SparqlRetries
                   THEN Goto("sparql2", idx + 1, <<>>, NoResult)
              ELSE Skip(GroupLen(rows, Cur.state), FALSE, "state")
           /\ Called(reply, TRUE, IF a = "rows" THEN [tag |-> "rows", rows |-> reply.bindings]
                                    ELSE NoResult)
subdistricts_sparql_match ==
  /\ job = "subdistricts_sparql" /\ pc = "match" /\ rows # <<>>
  /\ LET entry == find_match_subdistricts(Cur.name, Cur.district, Cur.state, kb)
         p == IF GroupLen(rows, Cur.state) > 1 THEN "match" ELSE "state"
     IN  IF entry = NoEntry THEN Skip(1, TRUE, p)
         ELSE sparql_update(entry, p)
  /\ NoCall

(***************************************************************************)
(* The scripts are run one at a time, in any order, any number of times.   *)
(***************************************************************************)
Next ==
  \/ \E j \in PerRecordJobs \cup SparqlJobs \cup {"bing"} : StartJob(j)
  \/ Finish \/ BeginRow
  \/ districts_direct \/ districts_category \/ districts_search \/ districts_hit
  \/ districts_coords \/ districts_website
  \/ subdistricts_direct \/ subdistricts_search \/ subdistricts_hit \/ subdistricts_coords
  \/ ulbs_direct \/ ulbs_search \/ ulbs_hit \/ ulbs_coords
  \/ villages_row \/ villages_direct \/ villages_search \/ villages_hit \/ villages_coords
  \/ bing_search \/ bing_wikipedia_api \/ bing_wikidata_id
  \/ districts_sparql_query \/ districts_sparql_match
  \/ subdistricts_sparql_state \/ subdistricts_sparql_query
  \/ subdistricts_sparql_query2 \/ subdistricts_sparql_match
Spec == Init /\ [][Next]_vars

(***************************************************************************)
(* The pure functions applied on their own: the Normalizers, the Page      *)
(* Validators and the Page Resolvers, each on arguments drawn from a       *)
(* bounded set.  No script runs and no table is read.                      *)
(***************************************************************************)
InitFunctions ==
  LET pad(n) == [i \in 1..n |-> "x"]
      \* name, a name that should give the same key, a word the key must keep
      names ==
        { << <<"N","a","g","a","o","n"," ","D","i","s","t","r","i","c","t",","," ","A","s","s","a","m">>, <<"n","a","g","a","o","n"," ","a","s","s","a","m">>, <<>> >>,
          << <<"N","A","G","A","O","N">>, <<"n","a","g","a","o","n">>, <<>> >>,
          << <<"N","a","g","a","o","n"," "," "," ","A","s","s","a","m">>, <<"N","a","g","a","o","n"," ","A","s","s","a","m">>, <<>> >>,
          << <<" ","N","a","g","a","o","n"," ">>, <<"N","a","g","a","o","n">>, <<>> >>,
          << <<"N","a","g","a","o","n",","," ","A","s","s","a","m",".">>, <<"N","a","g","a","o","n"," ","A","s","s","a","m">>, <<>> >>,
          << <<"N","a","g","a","o","n"," ","T","e","h","s","i","l">>, <<"N","a","g","a","o","n">>, <<>> >>,
          << <<"N","a","g","a","o","n"," ","T","a","l","u","k","a">>, <<"N","a","g","a","o","n">>, <<>> >>,
          << <<"N","a","g","a","o","n"," ","M","a","n","d","a","l"," ","A","s","s","a","m">>, <<"N","a","g","a","o","n"," ","A","s","s","a","m">>, <<>> >>,
          << <<"B","l","o","c","k"," ","N","a","g","a","o","n">>, <<"N","a","g","a","o","n">>, <<>> >>,
          << <<"B","l","o","c","k","a","p","u","r">>, <<"b","l","o","c","k","a","p","u","r">>, <<"b","l","o","c","k","a","p","u","r">> >>,
          << <<"R","a","m","a"," ","B","l","o","c","k","a","p","u","r">>, <<"r","a","m","a"," ","b","l","o","c","k","a","p","u","r">>, <<"b","l","o","c","k","a","p","u","r">> >>,
          << <<"R","a","m","a","b","l","o","c","k">>, <<"r","a","m","a","b","l","o","c","k">>, <<"r","a","m","a","b","l","o","c","k">> >>,
          << <<"R","a","m","a"," ","S","u","b","b","l","o","c","k","s">>, <<"r","a","m","a"," ","s","u","b","b","l","o","c","k","s">>, <<"s","u","b","b","l","o","c","k","s">> >>,
          << <<"R","a","m","a"," ","T","a","l","u","k","d","a","r">>, <<"r","a","m","a"," ","t","a","l","u","k","d","a","r">>, <<"t","a","l","u","k","d","a","r">> >>,
          << <<>>, <<>>, <<>> >>,
          << NullT, <<>>, <<>> >>,
          << <<" "," ">>, <<>>, <<>> >>,
          << <<"A","b","-","9">>, <<"a","b"," ","9">>, <<>> >>,
          << <<"A","b","_","B","l","o","c","k">>, <<"A","b","_","B","l","o","c","k">>, <<>> >>,
          << <<"A","b","-","B","l","o","c","k">>, <<"A","b","-","B","l","o","c","k">>, <<>> >>,
          << <<"t","e","h","s","i","l","_","x">>, <<"t","e","h","s","i","l","_","x">>, <<>> >>,
          << <<"S","u","b","-","D","i","s","t","r","i","c","t"," ","A","b">>, <<"S","u","b","-","D","i","s","t","r","i","c","t"," ","A","b">>, <<>> >> }
      titles == { <<>>, Sample.title, Sample.list_title, Sample.other_title, <<"A","b"," ","d","i","s","t","r","i","c","t">> }
      summaries ==
        { <<>>, Sample.extract, <<"A","b"," ","i","s"," ","a"," ","t","o","w","n">>, <<"A","b"," ","i","s"," ","a"," ","d","i","s","t","r","i","c","t">>, <<"Z","z"," ","i","s"," ","a"," ","r","i","v","e","r"," ","i","n"," ","G","o","a">>,
          <<"A","B"," ","l","i","e","s"," ","i","n"," ","G","O","A">>, <<"A","b",","," ","G","o","a","."," ">> \o pad(620) \o <<" ","t","o","w","n">>,
          <<"A","b",","," ","G","o","a","."," ">> \o pad(700) \o <<" ","v","i","l","l","a","g","e">> }
      rest == RestReplies \cup
                { Rest("none", 200, TRUE, "standard", Sample.title, pad(SummaryCap + 1), Sample.url),
                  Rest("none", 200, TRUE, "mainpage", Sample.title, Sample.extract, Sample.url) }
      \* the answers of the endpoint to three successive requests
      sparql == SparqlReplies(DistrictBindings)
      api == WikipediaApiReplies \cup
               { [exc |-> "none", exists |-> TRUE, type |-> "standard", title |-> Sample.title,
                  summary |-> pad(SummaryCap + 1), fullurl |-> Sample.url] }
  IN  /\ codes = {} /\ db = <<>>
      /\ job = "none" /\ pc = "idle" /\ rows = <<>> /\ idx = 0 /\ hits = <<>>
      /\ result = NoResult /\ kb = <<>> /\ ended = "none" /\ visited = {} /\ log = <<>>
      /\ allnone = TRUE /\ raised = FALSE
      /\ last = [failed |-> FALSE, res |-> NoResult]
      /\ out = <<>>
      /\ arg \in
           { [fn |-> "normalize", name |-> n[1], other |-> n[2], keep |-> n[3]] : n \in names }
           \cup { [fn |-> "is_correct_page", title |-> t, summary |-> s, name |-> <<"A","b">>,
                   district |-> <<"K","d">>, state |-> <<"G","o","a">>, parent |-> p] :
                    t \in titles, s \in summaries, p \in {<<"K","d">>, <<"G","o","a">>} }
           \cup { [fn |-> "get_page_direct", lib |-> "requests", term |-> <<"A","b">>, reply |-> r] :
                    r \in rest }
           \cup { [fn |-> "get_page_direct", lib |-> "wikipediaapi", term |-> <<"A","b">>,
                   reply |-> r] : r \in api }
           \cup { [fn |-> "find_match", job |-> "districts_sparql", name |-> <<"A","b">>,
                   parent |-> s, bindings |-> b] :
                    s \in {<<"G","o","a">>, <<"K","e","r","a","l","a">>, <<"-">>, <<>>}, b \in DistrictBindings }
           \cup { [fn |-> "find_match", job |-> "subdistricts_sparql", name |-> <<"A","b">>,
                   parent |-> d, bindings |-> b] :
                    d \in {<<"K","d">>, <<"Z","z">>, <<"-">>, <<>>}, b \in SubdistrictBindings }
           \cup { [fn |-> "sparql_query", replies |-> <<r1, r2, r3>>] :
                    r1 \in sparql, r2 \in sparql, r3 \in sparql }
Returns(value) ==
  /\ out = <<>> /\ out' = value
  /\ UNCHANGED <<codes, db, job, pc, rows, idx, hits, result, kb, ended, visited, log,
                 allnone, raised, last, arg>>
\* normalize(name) and normalize(other) of both bulk scripts
call_normalize ==
  /\ arg.fn = "normalize"
  /\ Returns([districts |-> normalize_districts(arg.name),
              districts_other |-> normalize_districts(arg.other),
              subdistricts |-> normalize_subdistricts(arg.name),
              subdistricts_other |-> normalize_subdistricts(arg.other),
              subdistricts_twice |-> normalize_subdistricts(normalize_subdistricts(arg.name))])
\* is_correct_page of the four lookup scripts, on the summary as it is
\* (accepted) and with the parent name appended to it (appended)
call_is_correct_page ==
  /\ arg.fn = "is_correct_page"
  /\ LET verdicts(summary) ==
           [districts |-> is_correct_page_districts(arg.title, summary, arg.name, arg.state),
            subdistricts |-> is_correct_page_subdistricts(arg.title, summary, arg.name,
                                                          arg.district, arg.state),
            ulbs |-> is_correct_page_ulbs(arg.title, summary, arg.name, arg.state),
            villages |-> is_correct_page_villages(arg.title, summary, arg.name,
                                                  arg.district, arg.state)]
     IN  Returns([accepted |-> verdicts(arg.summary),
                  appended |-> verdicts(arg.summary \o <<" ">> \o arg.parent)])
\* get_page_direct of the REST scripts (requests) and of the districts
\* script (wikipediaapi)
call_get_page_direct ==
  /\ arg.fn = "get_page_direct"
  /\ Returns(IF arg.lib = "requests" THEN get_page_direct(arg.term, arg.reply)
             ELSE get_page_direct_districts(arg.term, arg.reply))
\* sparql_query(q), the endpoint answering its requests with arg.replies
call_sparql_query ==
  /\ arg.fn = "sparql_query"
  /\ Returns(sparql_query(arg.replies))
\* find_match of the two bulk scripts, on the entries loaded from the rows
\* arg.bindings; arg.parent is the record's state resp. district
call_find_match ==
  /\ arg.fn = "find_match"
  /\ Returns(IF arg.job = "districts_sparql"
             THEN find_match_districts(arg.name, arg.parent,
                                       load_wikidata_districts(arg.bindings))
             ELSE find_match_subdistricts(arg.name, arg.parent, <<"G","o","a">>,
                                          load_state_subdistricts(arg.bindings)))
NextFunctions ==
  \/ call_normalize \/ call_is_correct_page \/ call_get_page_direct
  \/ call_sparql_query \/ call_find_match
SpecFunctions == InitFunctions /\ [][NextFunctions]_vars

(***************************************************************************)
(* 19_0_dont_Run_setup_wikipedia_tables.py: the full-table reset, run on   *)
(* tables in any state.  arg.confirm is what the operator types and        *)
(* arg.census the codes the SELECTs over the census tables yield.          *)
(***************************************************************************)
InitTables ==
  /\ codes \in {S \in SUBSET DOMAIN Census : Cardinality(S) <= MaxRecords}
  /\ db \in { [c \in codes |-> FreshRow(c)],
              [c \in codes |-> [FreshRow(c) EXCEPT !.status = "FOUND",
                                  !.wiki_title = Sample.title, !.wiki_url = Sample.url,
                                  !.wiki_summary = Sample.extract]] }
  /\ job = "setup_tables" /\ pc = "confirm" /\ rows = <<>> /\ idx = 0 /\ hits = <<>>
  /\ result = NoResult /\ kb = <<>> /\ ended = "running" /\ visited = {} /\ log = <<>>
  /\ allnone = TRUE /\ raised = FALSE
  /\ last = [failed |-> FALSE, res |-> NoResult]
  /\ out = <<>>
  /\ arg \in { [fn |-> "setup_tables", confirm |-> t, census |-> s] :
                 t \in { <<"Y","E","S">>, <<"y","e","s">>, <<" ","Y","E","S"," ">>, <<"Y">>, <<"N","O">>, <<"Y","E","S","!">>, <<>> },
                 s \in { Order, <<"D1">> \o Order \o <<"V1", "S2">>,
                         << "D1", "S1", "U1" >> } }
\* setup_tables, statement by statement: input(), the DROP TABLEs, the
\* CREATE TABLEs, then one INSERT IGNORE ... SELECT per table (idx)
setup_tables ==
  LET tables == << "district", "subdistrict", "ulb", "village" >>
      selected == { arg.census[i] : i \in { k \in 1..Len(arg.census) :
                                             Census[arg.census[k]].kind = tables[idx] } }
      step(p, i, how, cs, table) ==
        /\ pc' = p /\ idx' = i /\ ended' = how /\ codes' = cs /\ db' = table
        /\ UNCHANGED <<job, rows, hits, result, kb, visited, log, allnone, raised, last,
                       arg, out>>
  IN  /\ job = "setup_tables"
      /\ CASE pc = "confirm" ->
                IF strip(arg.confirm) # <<"Y","E","S">> THEN step("idle", 0, "done", codes, db)
                ELSE step("drop", 0, ended, codes, db)
           [] pc = "drop" -> step("create", 0, ended, {}, <<>>)
           [] pc = "create" -> step("insert", 1, ended, codes, db)
           [] pc = "insert" ->
                LET cs == codes \cup selected
                    table == [c \in cs |-> IF c \in codes THEN db[c] ELSE FreshRow(c)]
                IN  IF idx < Len(tables) THEN step("insert", idx + 1, ended, cs, table)
                    ELSE step("idle", 0, "done", cs, table)
           [] OTHER -> FALSE
SpecTables == InitTables /\ [][setup_tables]_vars

(***************************************************************************)
(* Properties                                                              *)
(***************************************************************************)

\* C1: whenever a per-record lookup job persists a record as FOUND, the page
\* it stores on the record passes that job's Page Validator for the record; a
\* page that was resolved but failed validation is never stored.
C1_FoundOnlyIfValidated ==
  [][\A c \in codes :
       (job \in PerRecordJobs /\ db'[c] # db[c] /\ db'[c].status = "FOUND") =>
         LET r == db'[c]
             cur == Census[c]
         IN  CASE job = "districts" ->
                    is_correct_page_districts(r.wiki_title, r.wiki_summary,
                                              cur.name, cur.state)
               [] job = "subdistricts" ->
                    is_correct_page_subdistricts(r.wiki_title, r.wiki_summary,
                                                 cur.name, cur.district, cur.state)
               [] job = "ulbs" ->
                    is_correct_page_ulbs(r.wiki_title, r.wiki_summary,
                                         cur.name, cur.state)
               [] job = "villages" ->
                    is_correct_page_villages(r.wiki_title, r.wiki_summary,
                                             clean_name(cur.name), cur.district,
                                             cur.state)]_vars

C3_CoordinatesNeverNulled ==
  [][\A c \in codes :
       /\ db[c].latitude # NullT => db'[c].latitude # NullT
       /\ db[c].longitude # NullT => db'[c].longitude # NullT
       /\ (job \in PerRecordJobs /\ db'[c] # db[c] /\ db'[c].status = "FOUND") =>
            /\ db'[c].latitude \in {Sample.lat, db[c].latitude}
            /\ db'[c].longitude \in {Sample.lon, db[c].longitude}]_vars

\* C4: when every lookup of a lookup job's attempt on a record returned none,
\* the job's update leaves the record NOT_FOUND with null wiki_title, wiki_url
\* and wiki_summary and with the latitude and longitude it had before.
C4_AllNoneKeepsCoordinates ==
  [][\A c \in codes :
       (job \in PerRecordJobs /\ db'[c] # db[c] /\ allnone') =>
         /\ db'[c].status = "NOT_FOUND"
         /\ db'[c].wiki_title = NullT /\ db'[c].wiki_url = NullT
         /\ db'[c].wiki_summary = NullT
         /\ db'[c].latitude = db[c].latitude
         /\ db'[c].longitude = db[c].longitude]_vars

\* C5: every status a job writes is FOUND or NOT_FOUND: a status that has left
\* PENDING never returns to PENDING, and ERROR is never written.
C5_StatusWritten ==
  [][\A c \in codes :
       /\ db'[c].status \in {"PENDING", "FOUND", "NOT_FOUND"}
       /\ db[c].status # "PENDING" => db'[c].status # "PENDING"
       /\ db'[c].status # db[c].status => db'[c].status \in {"FOUND", "NOT_FOUND"}]_vars
\* a lookup whose calls all failed has been recorded as NOT_FOUND in this run
C5_Witness ==
  \E c \in DOMAIN log :
    log[c].s = 1 /\ db[c].status = "NOT_FOUND" /\ allnone /\ pc = "row"

\* C6 as stated: every record a job (lookup, Bing or bulk) has attempted in
\* this pass has had its status written exactly once.
C6_StatusWrittenOncePerAttempt ==
  \A c \in DOMAIN log : log[c].a >= 1 => log[c].s = 1
\* C6 amended: a lookup job and the Bing fallback commit exactly one UPDATE for
\* every record they attempt, and that UPDATE sets the status; a bulk SPARQL
\* job commits at most one UPDATE per record and never sets a status.
C6_OneUpdatePerAttempt ==
  \A c \in DOMAIN log :
    /\ log[c].a <= 1
    /\ job \in SparqlJobs => log[c].s = 0 /\ log[c].n <= log[c].a
    /\ job \notin SparqlJobs =>
         /\ log[c].s = log[c].a /\ log[c].n = log[c].a
         /\ ended \in {"running", "done"} => (log[c].a = 1 <=> c \notin CodesOf(rows))
\* a bulk job has matched and updated a record whose status is still PENDING
C6_Witness ==
  \E c \in DOMAIN log :
    job \in SparqlJobs /\ log[c].a = 1 /\ log[c].n = 1 /\ log[c].s = 0
    /\ db[c].status = "PENDING"

\* C7 as stated: a job modifies only records whose status is PENDING (the Bing
\* fallback: PENDING or NOT_FOUND); no field of a FOUND record ever changes.
C7_OnlyPendingModified ==
  [][\A c \in codes :
       db'[c] # db[c] =>
         \/ db[c].status = "PENDING"
         \/ job = "bing" /\ db[c].status = "NOT_FOUND"]_vars
\* C7 amended: a lookup job modifies only PENDING records and the Bing
\* fallback only PENDING or NOT_FOUND records; a bulk SPARQL job modifies only
\* records whose wikidata_id is null, whatever their status, and changes
\* nothing but wikidata_id, latitude and longitude.
C7_ModifiedRecords ==
  [][\A c \in codes :
       db'[c] # db[c] =>
         \/ job \in PerRecordJobs /\ db[c].status = "PENDING"
         \/ job = "bing" /\ db[c].status \in {"PENDING", "NOT_FOUND"}
         \/ /\ job \in SparqlJobs /\ db[c].wikidata_id = NullT
            /\ db'[c] = [db[c] EXCEPT !.wikidata_id = db'[c].wikidata_id,
                                      !.latitude = db'[c].latitude,
                                      !.longitude = db'[c].longitude]]_vars
\* a bulk job has updated a record that was already FOUND
C7_Witness ==
  \E c \in DOMAIN log :
    job \in SparqlJobs /\ log[c].n = 1 /\ db[c].status = "FOUND"

\* C8: a KeyboardInterrupt raised in an external call ends the run at once
\* and writes nothing; a cancelled run resolves and writes nothing more; and
\* as long as a record is in progress its row is as it was fetched.
C8_CancellationPropagates ==
  /\ [][raised' => (ended' = "cancelled" /\ pc' = "idle" /\ rows' = <<>> /\ db' = db)]_vars
  /\ [](ended = "cancelled" => pc = "idle" /\ rows = <<>>)
  /\ [](rows # <<>> => db[Head(rows).code] = Head(rows).row)
\* a run cancelled after it committed one record and before it wrote another
C8_Witness ==
  /\ raised /\ ended = "cancelled"
  /\ \E c, d \in DOMAIN log : log[c].n = 1 /\ log[d].n = 0 /\ db[d].status = "PENDING"

\* C9: no outcome of an external call other than a cancellation aborts a
\* run, and a lookup run that is done has left every record it selected FOUND
\* or NOT_FOUND.
C9_BatchCompletes ==
  /\ ended # "crashed"
  /\ (ended = "done" /\ job \notin SparqlJobs) =>
       \A c \in DOMAIN log : db[c].status \in {"FOUND", "NOT_FOUND"}

C11_FirstAcceptance ==
  [][(job \in PerRecordJobs) =>
      (LET accepts(res) ==
             CASE job = "districts" -> districts_valid(res)
               [] job = "subdistricts" -> subdistricts_valid(res)
               [] job = "ulbs" -> ulbs_valid(res)
               [] job = "villages" -> villages_valid(res)
       IN  /\ (pc \in {"direct", "hit"} /\ ended' = "running" /\ last'.res.tag = "page"
               /\ accepts(last'.res)) =>
                (pc' \in {"coords", "category", "category2"} /\ result' = last'.res)
           /\ pc \in {"coords", "website"} =>
                pc' \notin {"direct", "search", "hit", "category", "category2"}
           /\ \A c \in codes :
                (db'[c] # db[c] /\ db'[c].status = "FOUND") =>
                  /\ pc \in {"coords", "website"} /\ result.tag = "page"
                  /\ db'[c].wiki_title = result.title /\ db'[c].wiki_url = result.url
                  /\ db'[c].wiki_summary = result.summary
                  /\ accepts(result))]_vars

\* C12: each normalize gives equal keys to two names that differ only in
\* letter case, punctuation, amount of whitespace and qualifier words standing
\* as separate words, and every key is made of [a-z0-9 ] only, without a
\* leading or trailing space and without two spaces in a row.
C12_EqualKeys ==
  (arg.fn = "normalize" /\ out # <<>> /\ IsStr(arg.name)) =>
    LET wellformed(k) ==
          /\ \A i \in 1..Len(k) : k[i] \in KeyChars
          /\ k = <<>> \/ (k[1] # " " /\ k[Len(k)] # " ")
          /\ ~In(<<" "," ">>, k)
    IN  /\ out.districts = out.districts_other
        /\ out.subdistricts = out.subdistricts_other
        /\ wellformed(out.districts) /\ wellformed(out.districts_other)
        /\ wellformed(out.subdistricts) /\ wellformed(out.subdistricts_other)

\* C13: each normalize removes a qualifier word only where it stands as a
\* whole word: a word that merely contains a qualifier (at its start, in its
\* middle or at its end, anywhere in the name) is kept whole in the key.
C13_EmbeddedQualifierKept ==
  (arg.fn = "normalize" /\ out # <<>> /\ arg.keep # <<>>) =>
    /\ In(arg.keep, out.districts)
    /\ In(arg.keep, out.subdistricts)

\* C14: each normalize returns the empty text, and does not raise, when the
\* name is empty or null.
C14_EmptyInputEmptyKey ==
  (arg.fn = "normalize" /\ out # <<>> /\ ~Truthy(arg.name)) =>
    /\ out.districts = <<>>
    /\ out.subdistricts = <<>>

\* C15: the Page Validator of every kind rejects a candidate whose title is
\* empty or whose summary is empty, whatever the other arguments are.
C15_EmptyRejected ==
  (arg.fn = "is_correct_page" /\ out # <<>> /\ (arg.title = <<>> \/ arg.summary = <<>>)) =>
    /\ ~out.accepted.districts /\ ~out.accepted.subdistricts
    /\ ~out.accepted.ulbs /\ ~out.accepted.villages

\* C16: a page whose title contains a blacklisted phrase of its kind is never
\* the page stored on a FOUND record of that kind.
C16_BlacklistedNeverFound ==
  \A c \in codes :
    db[c].status = "FOUND" =>
      LET blacklist ==
            CASE Census[c].kind = "district" -> BLACKLIST_districts
              [] Census[c].kind = "subdistrict" -> BLACKLIST_subdistricts
              [] Census[c].kind = "ulb" -> BLACKLIST_ulbs
              [] Census[c].kind = "village" -> BLACKLIST_villages
      IN  ~AnyIn(blacklist, lower(db[c].wiki_title))

\* C17: validator monotonicity.  When a validator rejects a candidate and the
\* only rule that fails is the parent rule (every other rule holds: the
\* validator accepts with empty parent names, which occur in any summary),
\* it accepts the same candidate with the parent name appended to the summary.
C17_ValidatorMonotone ==
  (arg.fn = "is_correct_page" /\ out # <<>>) =>
    LET others ==
          [districts |-> is_correct_page_districts(arg.title, arg.summary, arg.name, <<>>),
           subdistricts |-> is_correct_page_subdistricts(arg.title, arg.summary, arg.name,
                                                         <<>>, <<>>),
           ulbs |-> is_correct_page_ulbs(arg.title, arg.summary, arg.name, <<>>),
           villages |-> is_correct_page_villages(arg.title, arg.summary, arg.name,
                                                 <<>>, <<>>)]
        only_parent_fails(kind) == ~out.accepted[kind] /\ others[kind]
    IN  /\ (arg.parent = arg.state /\ only_parent_fails("districts")) => out.appended.districts
        /\ only_parent_fails("subdistricts") => out.appended.subdistricts
        /\ (arg.parent = arg.state /\ only_parent_fails("ulbs")) => out.appended.ulbs
        /\ only_parent_fails("villages") => out.appended.villages
\* a town page whose summary names no state is rejected, and accepted once
\* the state name is appended
C17_Witness ==
  /\ arg.fn = "is_correct_page" /\ out # <<>>
  /\ arg.title = Sample.title /\ arg.summary = <<"A","b"," ","i","s"," ","a"," ","t","o","w","n">> /\ arg.parent = arg.state
  /\ ~out.accepted.ulbs /\ ~out.accepted.subdistricts /\ ~out.accepted.villages
  /\ is_correct_page_ulbs(arg.title, arg.summary, arg.name, <<>>)
  /\ out.appended.ulbs /\ out.appended.subdistricts /\ out.appended.villages

\* C18: an accepted candidate satisfies the lexical rules of its kind: the
\* name occurs in title or summary, a parent name occurs in the summary, for
\* districts "district" occurs in title or summary, and for towns and villages
\* a geographic keyword occurs in the first 600 resp. 700 characters.
C18_AcceptedImpliesRules ==
  (arg.fn = "is_correct_page" /\ out # <<>>) =>
    LET t == lower(arg.title)
        s == lower(arg.summary)
        named == In(lower(arg.name), t) \/ In(lower(arg.name), s)
        in_state == In(lower(arg.state), s)
        in_parent == In(lower(arg.district), s) \/ in_state
    IN  /\ out.accepted.districts =>
             named /\ in_state /\ (In(<<"d","i","s","t","r","i","c","t">>, t) \/ In(<<"d","i","s","t","r","i","c","t">>, s))
        /\ out.accepted.subdistricts => named /\ in_parent
        /\ out.accepted.ulbs =>
             named /\ in_state /\ AnyIn(GEO_KEYWORDS, Slice(s, GeoPrefix_ulbs))
        /\ out.accepted.villages =>
             named /\ in_parent /\ AnyIn(GEO_WORDS, Slice(s, GeoPrefix_villages))
\* a summary whose only geographic word lies between character 600 and 700:
\* accepted as a village, not as a town
C18_Witness ==
  /\ arg.fn = "is_correct_page" /\ out # <<>>
  /\ Len(arg.summary) > GeoPrefix_ulbs /\ Len(arg.summary) < GeoPrefix_villages
  /\ out.accepted.villages /\ ~out.accepted.ulbs

\* C19: the category gate rejects a validated candidate only when the category
\* listing was actually retrieved: when the category lookup fails (the request
\* raises an error other than a cancellation), the candidate is still accepted
\* and the job goes on to store it.
C19_CategoryFailureAccepts ==
  [][(job = "districts" /\ pc \in {"category", "category2"} /\ last'.failed /\ ~raised')
       => (pc' = "coords" /\ result' = result)]_vars

\* C20: the direct-lookup function of every lookup job returns a page only
\* when the request succeeded and the page type is standard or disambiguation
\* (for the REST scripts: status 200 and a JSON body), and the summary of a
\* returned page has at most 1000 characters.
C20_ResolverContract ==
  (arg.fn = "get_page_direct" /\ out # <<>> /\ out.tag = "page") =>
    /\ arg.reply.exc = "none"
    /\ arg.lib = "requests" => (arg.reply.status = 200 /\ arg.reply.json)
    /\ arg.reply.type \in {"standard", "disambiguation"}
    /\ Len(out.summary) <= SummaryCap

\* C21: in the search fallback of the town and village jobs the hits of a
\* search term are resolved and validated in rank order until one is accepted:
\* the job leaves a search term for the next one (or gives the record up) only
\* when no hit of the term is left untried.
C21_EveryHitTried ==
  [][(job \in {"ulbs", "villages"} /\ pc = "hit" /\ ended' = "running"
      /\ pc' \notin {"hit", "coords"})
       => (Tail(hits) = <<>>)]_vars

\* C22: sparql_query makes at most SparqlRetries (3) requests for one query.
\* It returns the row bindings of the first response with status 200 (whose
\* body parses) and makes no request after it; it sleeps 30 s after each
\* rate-limit response (429) before the next attempt; and when no attempt
\* yields such a response it returns an empty result after the third request.
\* Only a cancellation (KeyboardInterrupt) leaves it as an exception.
C22_SparqlQueryRetries ==
  (arg.fn = "sparql_query" /\ out # <<>>) =>
    LET good(i) == /\ arg.replies[i].exc = "none" /\ arg.replies[i].status = 200
                   /\ arg.replies[i].json
        ends(i) == good(i) \/ arg.replies[i].exc = "KeyboardInterrupt"
        n == out.requests
    IN  /\ n \in 1..SparqlRetries
        /\ \A i \in 1..(n - 1) : ~ends(i)
        /\ good(n) => out.result = arg.replies[n].bindings
        /\ arg.replies[n].exc = "KeyboardInterrupt" => out.result = <<"RAISE">>
        /\ ~ends(n) => (n = SparqlRetries /\ out.result = <<>>)
        /\ \A i \in 1..Len(out.slept) :
             (arg.replies[i].exc = "none" /\ arg.replies[i].status = 429)
               => out.slept[i] = 30
        /\ Len(out.slept) = IF ends(n) THEN n - 1 ELSE n
\* rate-limited twice, then answered: the rows of the third request are
\* returned after two waits of 30 s
C22_Witness ==
  /\ arg.fn = "sparql_query" /\ out # <<>>
  /\ arg.replies[1].status = 429 /\ arg.replies[2].status = 429
  /\ out.requests = SparqlRetries /\ out.slept = <<30, 30>>
  /\ out.result # <<>> /\ out.result = arg.replies[3].bindings

\* C23: in the per-state load of subdistricts the narrow two-hop query comes
\* first: the broad query is only ever issued after the narrow one, and only
\* when the narrow query returned nothing.  When the narrow query returns at
\* least one row, the entries are built from those rows alone and the job goes
\* on to match the state's records without issuing the broad query.
C23_NarrowBeforeBroad ==
  [][(job = "subdistricts_sparql") =>
       (/\ (pc' = "sparql2") => (pc \in {"sparql", "sparql2"})
        /\ (pc = "state" /\ pc' \notin {"state", "idle"}) => (pc' = "sparql" /\ idx' = 1)
        /\ (pc = "sparql" /\ pc' = "sparql2") =>
             ~(last'.res.tag = "rows" /\ last'.res.rows # <<>>)
        /\ (pc = "sparql" /\ last'.res.tag = "rows" /\ last'.res.rows # <<>>) =>
             (pc' = "match" /\ kb' = load_state_subdistricts(last'.res.rows))
        /\ (pc = "match") => (pc' # "sparql2"))]_vars
\* the narrow query has answered with rows and the state's records are being
\* matched against them
C23_Witness ==
  /\ job = "subdistricts_sparql" /\ pc = "match" /\ kb # <<>>
  /\ last.res.tag = "rows" /\ kb = load_state_subdistricts(last.res.rows)

\* C24: find_match of the bulk scripts rejects an entry whose name matches
\* only when the entry's parent and the record's parent both normalize to a
\* non-empty text and neither contains the other.  So the entry it returns is
\* compatible with the record's parent, and it returns none only when every
\* entry whose name matches is incompatible; an empty parent on either side
\* never causes a rejection.
C24_SoftParentCheck ==
  (arg.fn = "find_match" /\ out # <<>>) =>
    LET norm(x) == IF arg.job = "districts_sparql" THEN normalize_districts(x)
                   ELSE normalize_subdistricts(x)
        compatible(entry) ==
          LET e == norm(entry.parent)
              r == norm(arg.parent)
          IN  e = <<>> \/ r = <<>> \/ In(e, r) \/ In(r, e)
        lookup == load_wikidata_districts(arg.bindings)
        entries == load_state_subdistricts(arg.bindings)
        n == norm(arg.name)
        patterns == { norm(arg.name \o <<" ","d","i","s","t","r","i","c","t"," ">> \o arg.parent),
                      norm(arg.name \o <<" ","d","i","s","t","r","i","c","t">>),
                      norm(arg.name \o <<" ">> \o arg.parent), n }
        \* the entries whose name matches the record
        named ==
          IF arg.job = "districts_sparql"
          THEN { lookup[i].entry : i \in { k \in 1..Len(lookup) : lookup[k].key \in patterns } }
          ELSE { entries[i] : i \in { k \in 1..Len(entries) :
                   \E wn \in { norm(entries[k].label), norm(entries[k].alt) } :
                      wn # <<>> /\ (n = wn \/ (n # <<>> /\ (In(n, wn) \/ In(wn, n)))) } }
    IN  /\ out # NoEntry => (out \in named /\ compatible(out))
        /\ out = NoEntry => \A entry \in named : ~compatible(entry)
\* an entry whose name matches and which records no parent is returned for a
\* record that has a parent
C24_Witness ==
  /\ arg.fn = "find_match" /\ out # <<>> /\ out # NoEntry
  /\ out.parent = <<>> /\ arg.parent = <<"K","d">>

C26_TimeoutsBounded ==
  (pc \in {"direct", "search", "hit", "category", "category2", "coords", "website",
           "sparql", "sparql2", "bing", "wpapi", "qid"}) =>
    (timeout(job, pc) # <<>> /\ timeout(job, pc)[1] <= 15)

\* C27: no job clears a wikidata_id that is stored on a record: a record
\* whose wikidata_id is non-null keeps a non-null wikidata_id in every step.
C27_WikidataIdKept ==
  [][\A c \in codes : (db[c].wikidata_id # NullT) => (db'[c].wikidata_id # NullT)]_vars

\* C28: the bulk SPARQL jobs never change status, wiki_title, wiki_url or
\* wiki_summary of a record.  They write a record only when matching it, and
\* then only its wikidata_id, latitude and longitude; for an unmatched record,
\* and while a state is skipped or being loaded, they write nothing.
C28_SparqlFrame ==
  [][(job \in SparqlJobs) =>
       (/\ \A c \in codes :
             /\ db'[c].status = db[c].status /\ db'[c].wiki_title = db[c].wiki_title
             /\ db'[c].wiki_url = db[c].wiki_url /\ db'[c].wiki_summary = db[c].wiki_summary
             /\ db'[c].website_url = db[c].website_url
             /\ (db'[c] # db[c]) =>
                  (pc = "match" /\ c = Head(rows).code /\ db'[c].wikidata_id # NullT)
        /\ (pc # "match") => (db' = db)
        /\ (pc = "match" /\ rows' # rows /\ log'[Head(rows).code].n = log[Head(rows).code].n)
             => (db' = db))]_vars
\* a record a lookup job had marked FOUND has just been matched by a bulk job:
\* it has its wikidata_id and is still FOUND with its page
C28_Witness ==
  /\ job \in SparqlJobs /\ pc \in {"match", "state"}
  /\ \E c \in codes :
       /\ c \in DOMAIN log /\ log[c].n = 1
       /\ db[c].status = "FOUND" /\ db[c].wiki_title # NullT /\ db[c].wikidata_id # NullT

\* C29: in the village job a record whose state, lower-cased, is "andaman and
\* nicobar islands" or "lakshadweep" is set to NOT_FOUND in the step that
\* takes it up, with no external call, and nothing but its status changes;
\* a record whose cleaned name is empty or shorter than 2 characters is set
\* to NOT_FOUND in the step that takes it up, with no external call.
C29_SkippedWithoutCall ==
  [][(job = "villages" /\ pc = "row" /\ rows # <<>>) =>
       LET c == Head(rows).code
           state == lower(Census[c].state)
           clean == clean_name(Census[c].name)
           skip == state \in { <<"a","n","d","a","m","a","n"," ","a","n","d"," ","n","i","c","o","b","a","r"," ","i","s","l","a","n","d","s">>, <<"l","a","k","s","h","a","d","w","e","e","p">> }
           short == clean = <<>> \/ Len(clean) < 2
       IN  /\ skip =>
                /\ db' = [db EXCEPT ![c] = [db[c] EXCEPT !.status = "NOT_FOUND"]]
                /\ pc' \in {"row", "idle"} /\ rows' = Tail(rows) /\ ~last'.failed
                /\ last'.res = NoResult
           /\ (short /\ ~skip) =>
                /\ db'[c].status = "NOT_FOUND" /\ \A d \in codes \ {c} : db'[d] = db[d]
                /\ pc' \in {"row", "idle"} /\ rows' = Tail(rows) /\ ~last'.failed
                /\ last'.res = NoResult
           /\ (~short /\ ~skip) => (pc' = "direct" /\ db' = db)]_vars
\* both kinds of record have been taken up in one run: the Lakshadweep village
\* kept its coordinates, the village named "A*" was given up, neither was looked up
C29_Witness ==
  /\ job = "villages" /\ {"V2", "V3"} \subseteq codes
  /\ \A c \in {"V2", "V3"} : c \in DOMAIN log /\ log[c].n = 1 /\ db[c].status = "NOT_FOUND"
  /\ db["V2"].latitude = <<"1","0">> /\ db["V2"].longitude = <<"7","3">>

\* C30: the word-boundary normalize is idempotent: normalizing a key again
\* gives the same key, also for a name in which a qualifier word is joined
\* to another word by an underscore or a hyphen.
C30_NormalizeIdempotent ==
  (arg.fn = "normalize" /\ out # <<>>) => (out.subdistricts_twice = out.subdistricts)
====
